---- MODULE Spec2Model ----
(***************************************************************************)
(* Identity resolution and reconciliation engine of swim-times-manager:    *)
(* the LocalSwimStorage class of client/src/lib/storage.ts.                *)
(*                                                                         *)
(* The persisted snapshot (localStorage item "swim-times-data") is the     *)
(* pair athletes / swimTimes.  Every public method is one action: it reads *)
(* the snapshot with getData(), computes, and writes it back with          *)
(* saveData().  Methods that call other methods which read and write the   *)
(* snapshot themselves (ensureAthleteExists, resolveAthleteName) are       *)
(* modelled with the snapshot each of those calls really sees.             *)
(*                                                                         *)
(* An athlete is the element of data.athletes at its position: Athlete.id  *)
(* is a fresh UUID per object and is only ever compared for (in)equality   *)
(* of two elements of the same array, which is (in)equality of position.   *)
(*                                                                         *)
(* Not modelled: Athlete.createdAt / updatedAt / metadata and the record   *)
(* attributes eventName, date, measuredTime, stroke, distance, poolLength, *)
(* splits of stored records.  No branch of the engine reads them; a stored *)
(* record always has a last_modified, so `last_modified || date` never     *)
(* falls back.  Reconcile requires the attributes of an incoming entry to  *)
(* be present (its field `valid`) and reads its date.                      *)
(***************************************************************************)
EXTENDS Integers, Sequences, FiniteSets, TLC

VARIABLES
    athletes,   \* StoredData.athletes : sequence of [canonicalName, aliases]
    swimTimes,  \* StoredData.swimTimes: sequence of [id, athleteName, last_modified]
    clock,      \* the value new Date() returns now
    scorer      \* a call of calculateNameSimilarity: [str1, str2, similarity]

vars == <<athletes, swimTimes, clock, scorer>>

(***************************************************************************)
(* Bounds of the model                                                     *)
(***************************************************************************)
Names == {"Bob Jones", "Robert Jones", "Bobby Jones"}

\* An absent athleteName (undefined)
NoName == ""

MaxNames == 4
MaxRecs == 1
MaxClock == 2
MaxInAth == 1
MaxInAliases == 1
MaxInRec == 1
MaxBatch == 2
MaxLen == 3
MaxRawAthletes == 3

RecIds == 1..MaxRecs
Stamps == 1..MaxClock

SeqUpTo(S, n) == UNION {[1..k -> S] : k \in 0..n}

(***************************************************************************)
(* Array helpers (Array.prototype.includes / find / findIndex)             *)
(***************************************************************************)
Includes(s, x) == \E i \in 1..Len(s) : s[i] = x

Range(s) == {s[i] : i \in 1..Len(s)}

MinOf(S) == CHOOSE i \in S : \A j \in S : i <= j

\* crypto.randomUUID(): an identifier no stored or incoming record carries.
\* Identifiers are opaque, so the least unused positive number stands for it.
FreshId(used) == MinOf({n \in 1..(Cardinality(used) + 1) : n \notin used})

RecordIds(recs) == {recs[i].id : i \in 1..Len(recs)}

\* data.athletes.find(a => a.canonicalName === name), as an index (0: undefined)
getAthlete(aths, name) ==
    LET hits == {i \in 1..Len(aths) : aths[i].canonicalName = name}
    IN  IF hits = {} THEN 0 ELSE MinOf(hits)

\* data.athletes.find(a => a.aliases.includes(name)), as an index (0: undefined)
aliasOwner(aths, name) ==
    LET hits == {i \in 1..Len(aths) : Includes(aths[i].aliases, name)}
    IN  IF hits = {} THEN 0 ELSE MinOf(hits)

\* data.swimTimes.findIndex(time => time.id === id), 1-based (0: not found)
findIndex(recs, id) ==
    LET hits == {i \in 1..Len(recs) : recs[i].id = id}
    IN  IF hits = {} THEN 0 ELSE MinOf(hits)

ensureAthleteExists(aths, name) ==
    IF \E i \in 1..Len(aths) : aths[i].canonicalName = name
    THEN aths
    ELSE Append(aths, [canonicalName |-> name, aliases |-> <<>>])

\* Faulty variant of resolveAthleteName: the alias lookup comes first
resolveAthleteName_aliasFirst(aths, name) ==
    IF aliasOwner(aths, name) # 0
    THEN aths[aliasOwner(aths, name)].canonicalName
    ELSE name

resolveAthleteName(aths, name) ==
    IF getAthlete(aths, name) # 0 THEN name
    ELSE IF aliasOwner(aths, name) # 0
         THEN aths[aliasOwner(aths, name)].canonicalName
         ELSE name

\* xs.forEach(x => { if (!acc.includes(x)) acc.push(x) })
RECURSIVE pushNew(_, _)
pushNew(acc, xs) ==
    IF xs = <<>> THEN acc
    ELSE pushNew(IF Includes(acc, Head(xs)) THEN acc ELSE Append(acc, Head(xs)),
                 Tail(xs))

\* Faulty variant of relabel: the bulk rewrite of the records is forgotten
relabel_none(recs, old, new) == recs

\* Faulty variant of relabel: a rewritten record also gets a later last_modified
relabel_bumps(recs, old, new) ==
    [k \in 1..Len(recs) |->
        IF recs[k].athleteName = old
        THEN [recs[k] EXCEPT !.athleteName = new, !.last_modified = @ + 1]
        ELSE recs[k]]

\* swimTimes.forEach(t => { if (t.athleteName === old) t.athleteName = new })
relabel(recs, old, new) ==
    [k \in 1..Len(recs) |->
        IF recs[k].athleteName = old
        THEN [recs[k] EXCEPT !.athleteName = new]
        ELSE recs[k]]

\* What a call leaves persisted; ok = FALSE: the call threw (or returned
\* undefined / false / success: false)
Outcome(ok, aths, recs) == [ok |-> ok, athletes |-> aths, swimTimes |-> recs]

\* Faulty variant of resolve: an unknown name gets an athlete
resolve_allocates(aths, recs, name) ==
    [value |-> resolveAthleteName(aths, name),
     athletes |-> ensureAthleteExists(aths, resolveAthleteName(aths, name)),
     swimTimes |-> recs]

\* A call of resolveAthleteName: the value it returns and the snapshot it
\* leaves persisted (it calls getData() and never saveData())
resolve(aths, recs, name) ==
    [value |-> resolveAthleteName(aths, name),
     athletes |-> aths, swimTimes |-> recs]

(***************************************************************************)
(* Identity operations, as functions of the snapshot they load             *)
(***************************************************************************)
\* Faulty variant of mergeAthletes: the self-merge check is missing
mergeAthletes_noSelfCheck(aths, recs, fromName, toName) ==
    LET resolvedFrom == resolveAthleteName(aths, fromName)
        resolvedTo   == resolveAthleteName(aths, toName)
        fi == getAthlete(aths, resolvedFrom)
        ti == getAthlete(aths, resolvedTo)
    IN  IF fi = 0 \/ ti = 0
        THEN Outcome(FALSE, aths, recs)
        ELSE
        LET toAliases == pushNew(pushNew(aths[ti].aliases, <<resolvedFrom>>),
                                 aths[fi].aliases)
            repaired == [k \in 1..Len(aths) |->
                IF k # ti
                THEN [aths[k] EXCEPT !.aliases =
                        [j \in 1..Len(aths[k].aliases) |->
                            IF aths[k].aliases[j] = resolvedFrom
                            THEN resolvedTo ELSE aths[k].aliases[j]]]
                ELSE [aths[k] EXCEPT !.aliases = toAliases]]
            kept == [k \in 1..(Len(aths) - 1) |->
                        IF k < fi THEN repaired[k] ELSE repaired[k + 1]]
        IN  Outcome(TRUE, kept, relabel(recs, resolvedFrom, resolvedTo))

\* Faulty variant of mergeAthletes: the aliases of the other athletes are
\* not rewritten (step 3 is missing)
mergeAthletes_noRepair(aths, recs, fromName, toName) ==
    LET resolvedFrom == resolveAthleteName(aths, fromName)
        resolvedTo   == resolveAthleteName(aths, toName)
        fi == getAthlete(aths, resolvedFrom)
        ti == getAthlete(aths, resolvedTo)
    IN  IF resolvedFrom = resolvedTo \/ fi = 0 \/ ti = 0
        THEN Outcome(FALSE, aths, recs)
        ELSE
        LET toAliases == pushNew(pushNew(aths[ti].aliases, <<resolvedFrom>>),
                                 aths[fi].aliases)
            repaired == [aths EXCEPT ![ti].aliases = toAliases]
            kept == [k \in 1..(Len(aths) - 1) |->
                        IF k < fi THEN repaired[k] ELSE repaired[k + 1]]
        IN  Outcome(TRUE, kept, relabel(recs, resolvedFrom, resolvedTo))

mergeAthletes(aths, recs, fromName, toName) ==
    LET resolvedFrom == resolveAthleteName(aths, fromName)
        resolvedTo   == resolveAthleteName(aths, toName)
        fi == getAthlete(aths, resolvedFrom)
        ti == getAthlete(aths, resolvedTo)
    IN  IF resolvedFrom = resolvedTo \/ fi = 0 \/ ti = 0
        THEN Outcome(FALSE, aths, recs)
        ELSE
        LET toAliases == pushNew(pushNew(aths[ti].aliases, <<resolvedFrom>>),
                                 aths[fi].aliases)
            repaired == [k \in 1..Len(aths) |->
                IF k # ti
                THEN [aths[k] EXCEPT !.aliases =
                        [j \in 1..Len(aths[k].aliases) |->
                            IF aths[k].aliases[j] = resolvedFrom
                            THEN resolvedTo ELSE aths[k].aliases[j]]]
                ELSE [aths[k] EXCEPT !.aliases = toAliases]]
            kept == [k \in 1..(Len(aths) - 1) |->
                        IF k < fi THEN repaired[k] ELSE repaired[k + 1]]
        IN  Outcome(TRUE, kept, relabel(recs, resolvedFrom, resolvedTo))

\* Faulty variant of renameAthleteCanonical: the new canonical name stays among the aliases
renameAthleteCanonical_keepsAlias(aths, recs, currentCanonicalName, newCanonicalName) ==
    LET i == getAthlete(aths, currentCanonicalName)
    IN  IF i = 0 THEN Outcome(FALSE, aths, recs)
        ELSE IF /\ newCanonicalName # currentCanonicalName
                /\ ~Includes(aths[i].aliases, newCanonicalName)
        THEN Outcome(FALSE, aths, recs)
        ELSE IF newCanonicalName = currentCanonicalName
        THEN Outcome(TRUE, aths, recs)
        ELSE
        LET renamed == [canonicalName |-> newCanonicalName,
                        aliases |-> Append(aths[i].aliases,
                                   currentCanonicalName)]
        IN  Outcome(TRUE, [aths EXCEPT ![i] = renamed],
                    relabel(recs, currentCanonicalName, newCanonicalName))

\* Faulty variant of renameAthleteCanonical: the new name is not required to be an alias
renameAthleteCanonical_anyName(aths, recs, currentCanonicalName, newCanonicalName) ==
    LET i == getAthlete(aths, currentCanonicalName)
    IN  IF i = 0 THEN Outcome(FALSE, aths, recs)
        ELSE IF newCanonicalName = currentCanonicalName
        THEN Outcome(TRUE, aths, recs)
        ELSE
        LET renamed == [canonicalName |-> newCanonicalName,
                        aliases |-> Append(SelectSeq(aths[i].aliases,
                                       LAMBDA a : a # newCanonicalName),
                                   currentCanonicalName)]
        IN  Outcome(TRUE, [aths EXCEPT ![i] = renamed],
                    relabel(recs, currentCanonicalName, newCanonicalName))

\* Faulty variant of renameAthleteCanonical: no early return when both names are equal
renameAthleteCanonical_noEarlyReturn(aths, recs, currentCanonicalName, newCanonicalName) ==
    LET i == getAthlete(aths, currentCanonicalName)
    IN  IF i = 0 THEN Outcome(FALSE, aths, recs)
        ELSE IF /\ newCanonicalName # currentCanonicalName
                /\ ~Includes(aths[i].aliases, newCanonicalName)
        THEN Outcome(FALSE, aths, recs)
        ELSE
        LET renamed == [canonicalName |-> newCanonicalName,
                        aliases |-> Append(SelectSeq(aths[i].aliases,
                                       LAMBDA a : a # newCanonicalName),
                                   currentCanonicalName)]
        IN  Outcome(TRUE, [aths EXCEPT ![i] = renamed],
                    relabel(recs, currentCanonicalName, newCanonicalName))

renameAthleteCanonical(aths, recs, currentCanonicalName, newCanonicalName) ==
    LET i == getAthlete(aths, currentCanonicalName)
    IN  IF i = 0 THEN Outcome(FALSE, aths, recs)
        ELSE IF /\ newCanonicalName # currentCanonicalName
                /\ ~Includes(aths[i].aliases, newCanonicalName)
        THEN Outcome(FALSE, aths, recs)
        ELSE IF newCanonicalName = currentCanonicalName
        THEN Outcome(TRUE, aths, recs)
        ELSE
        LET renamed == [canonicalName |-> newCanonicalName,
                        aliases |-> Append(SelectSeq(aths[i].aliases,
                                               LAMBDA a : a # newCanonicalName),
                                           currentCanonicalName)]
        IN  Outcome(TRUE, [aths EXCEPT ![i] = renamed],
                    relabel(recs, currentCanonicalName, newCanonicalName))

\* mergeAthletes has saved its result before the rename is attempted
mergeAthletesWithFinalName(aths, recs, fromName, toName, finalCanonicalName) ==
    LET m == mergeAthletes(aths, recs, fromName, toName)
    IN  IF ~m.ok THEN m
        ELSE
        LET resolvedTo == resolveAthleteName(m.athletes, toName)
        IN  IF resolvedTo # finalCanonicalName
            THEN renameAthleteCanonical(m.athletes, m.swimTimes,
                                        resolvedTo, finalCanonicalName)
            ELSE m

\* Faulty variant of unmergeAlias: an alias nobody owns still gets its athlete
unmergeAlias_noOwnerCheck(aths, recs, alias) ==
    LET o == aliasOwner(aths, alias)
        stripped == IF o = 0 THEN aths
                    ELSE [aths EXCEPT ![o].aliases =
                             SelectSeq(@, LAMBDA a : a # alias)]
    IN  Outcome(o # 0,
                Append(stripped, [canonicalName |-> alias, aliases |-> <<>>]),
                recs)

unmergeAlias(aths, recs, alias) ==
    LET o == aliasOwner(aths, alias)
    IN  IF o = 0 THEN Outcome(FALSE, aths, recs)
        ELSE
        LET stripped == [aths EXCEPT ![o].aliases =
                            SelectSeq(@, LAMBDA a : a # alias)]
        IN  Outcome(TRUE,
                    Append(stripped, [canonicalName |-> alias, aliases |-> <<>>]),
                    recs)

(***************************************************************************)
(* Record operations                                                       *)
(***************************************************************************)
\* ensureAthleteExists saves the new athlete, then getData() reloads it
createSwimTime(aths, recs, name, now) ==
    LET resolvedName == resolveAthleteName(aths, name)
        ensured == ensureAthleteExists(aths, resolvedName)
        newTime == [id |-> FreshId(RecordIds(recs)),
                    athleteName |-> resolvedName,
                    last_modified |-> now]
    IN  Outcome(TRUE, ensured, Append(recs, newTime))

\* `data` is loaded before ensureAthleteExists runs; ensureAthleteExists loads
\* and saves its own copy of the snapshot; the final saveData(data) then
\* writes the athletes of the earlier load over it.
updateSwimTime(aths, recs, id, name, now) ==
    LET data == [athletes |-> aths, swimTimes |-> recs]
        index == findIndex(data.swimTimes, id)
        resolvedName == resolveAthleteName(aths, name)
        savedByEnsure == ensureAthleteExists(aths, resolvedName)
        merged == IF name # NoName
                  THEN [data.swimTimes[index] EXCEPT
                            !.athleteName = resolvedName,
                            !.last_modified = now]
                  ELSE [data.swimTimes[index] EXCEPT !.last_modified = now]
    IN  IF index = 0 THEN Outcome(FALSE, aths, recs)
        ELSE Outcome(TRUE, data.athletes,
                     [data.swimTimes EXCEPT ![index] = merged])

\* Faulty variant of deleteSwimTime: an athlete left without records is removed
deleteSwimTime_dropsAthletes(aths, recs, id) ==
    LET remaining == SelectSeq(recs, LAMBDA t : t.id # id)
        owning == SelectSeq(aths, LAMBDA a :
                      \E k \in 1..Len(remaining) :
                          remaining[k].athleteName = a.canonicalName)
    IN  IF Len(remaining) = Len(recs)
        THEN Outcome(FALSE, aths, recs)
        ELSE Outcome(TRUE, owning, remaining)

deleteSwimTime(aths, recs, id) ==
    LET remaining == SelectSeq(recs, LAMBDA t : t.id # id)
    IN  IF Len(remaining) = Len(recs)
        THEN Outcome(FALSE, aths, recs)
        ELSE Outcome(TRUE, aths, remaining)

(***************************************************************************)
(* Reconcile: importData(jsonData)                                         *)
(*                                                                         *)
(* A payload is the parsed JSON text:                                      *)
(*   shape "unparseable": JSON.parse throws;                               *)
(*   shape "array":       a bare array of entries (it has no .athletes);   *)
(*   shape "object":      an object with time_entries or swimTimes, and    *)
(*                        athletes when the list is not empty;             *)
(*   shape "norecords":   an object with neither array of entries.         *)
(* An incoming entry with valid = FALSE lacks a required field.  Absent id *)
(* and last_modified are 0.  The date of an entry is read only when its    *)
(* last_modified is absent, so it is drawn only then.  The entry `null` is  *)
(* an element of the array that is no object at all.                       *)
(***************************************************************************)
InAthletes == [canonicalName : Names, aliases : SeqUpTo(Names, MaxInAliases)]

InvalidEntry ==
    [valid |-> FALSE, id |-> 0, athleteName |-> NoName,
     last_modified |-> 0, date |-> 1]

\* The entry `null`: reading time.athleteName of it throws a TypeError
NullEntry ==
    [valid |-> FALSE, id |-> 0, athleteName |-> NoName,
     last_modified |-> 0, date |-> 0]

InRecords ==
    {InvalidEntry, NullEntry} \cup
    {r \in [valid : {TRUE}, id : {0} \cup RecIds, athleteName : Names,
            last_modified : {0} \cup Stamps, date : Stamps] :
        r.last_modified # 0 => r.date = 1}

Payload(shape, aths, recs) == [shape |-> shape, athletes |-> aths, records |-> recs]

\* The payloads that carry the athletes a and the entries r
PayloadsOf(a, r) ==
    {Payload("object", a, r)}
    \cup (IF r = <<>> THEN {Payload("norecords", a, r)} ELSE {})
    \cup (IF a = <<>> THEN {Payload("array", a, r)} ELSE {})
    \cup (IF a = <<>> /\ r = <<>> THEN {Payload("unparseable", a, r)} ELSE {})

\* Faulty variant of mergeImportedAliases: an alias the athlete already has is
\* pushed again
RECURSIVE mergeImportedAliases_noDedup(_, _, _, _, _)
mergeImportedAliases_noDedup(aths, conflicts, e, importedCanonical, aliases) ==
    IF aliases = <<>> THEN [athletes |-> aths, conflicts |-> conflicts]
    ELSE
    LET alias == Head(aliases)
        owners == {k \in 1..Len(aths) : k # e /\ Includes(aths[k].aliases, alias)}
    IN  IF owners # {}
        THEN mergeImportedAliases_noDedup(
                aths,
                Append(conflicts,
                       [alias |-> alias,
                        localCanonical |-> aths[MinOf(owners)].canonicalName,
                        importedCanonical |-> importedCanonical]),
                e, importedCanonical, Tail(aliases))
        ELSE IF TRUE
        THEN mergeImportedAliases_noDedup([aths EXCEPT ![e].aliases = Append(@, alias)],
                                  conflicts, e, importedCanonical, Tail(aliases))
        ELSE mergeImportedAliases_noDedup(aths, conflicts, e, importedCanonical,
                                  Tail(aliases))

\* importedAthlete.aliases.forEach(...) for the existing athlete at index e
RECURSIVE mergeImportedAliases(_, _, _, _, _)
mergeImportedAliases(aths, conflicts, e, importedCanonical, aliases) ==
    IF aliases = <<>> THEN [athletes |-> aths, conflicts |-> conflicts]
    ELSE
    LET alias == Head(aliases)
        owners == {k \in 1..Len(aths) : k # e /\ Includes(aths[k].aliases, alias)}
    IN  IF owners # {}
        THEN mergeImportedAliases(
                aths,
                Append(conflicts,
                       [alias |-> alias,
                        localCanonical |-> aths[MinOf(owners)].canonicalName,
                        importedCanonical |-> importedCanonical]),
                e, importedCanonical, Tail(aliases))
        ELSE IF ~Includes(aths[e].aliases, alias)
        THEN mergeImportedAliases([aths EXCEPT ![e].aliases = Append(@, alias)],
                                  conflicts, e, importedCanonical, Tail(aliases))
        ELSE mergeImportedAliases(aths, conflicts, e, importedCanonical,
                                  Tail(aliases))

\* parsed.athletes.forEach(...) over the loaded `data`
RECURSIVE importAthletes(_, _, _, _)
importAthletes(aths, conflicts, athletesImported, incoming) ==
    IF incoming = <<>>
    THEN [athletes |-> aths, conflicts |-> conflicts,
          athletesImported |-> athletesImported]
    ELSE
    LET importedAthlete == Head(incoming)
        existing == getAthlete(aths, importedAthlete.canonicalName)
    IN  IF existing # 0
        THEN LET r == mergeImportedAliases(aths, conflicts, existing,
                                           importedAthlete.canonicalName,
                                           importedAthlete.aliases)
             IN  importAthletes(r.athletes, r.conflicts, athletesImported,
                                Tail(incoming))
        ELSE importAthletes(
                Append(aths, [canonicalName |-> importedAthlete.canonicalName,
                              aliases |-> importedAthlete.aliases]),
                conflicts, athletesImported + 1, Tail(incoming))

\* Faulty variant of mapSet: the value is appended also when the key exists
mapSet_appends(m, t) == Append(m, t)

\* Map.prototype.set: replace the value of the key in place, or append
mapSet(m, t) ==
    IF findIndex(m, t.id) # 0 THEN [m EXCEPT ![findIndex(m, t.id)] = t]
    ELSE Append(m, t)

\* new Map(data.swimTimes.map(t => [t.id, t]))
RECURSIVE newMap(_, _)
newMap(m, recs) ==
    IF recs = <<>> THEN m ELSE newMap(mapSet(m, Head(recs)), Tail(recs))

\* Faulty variant of importTimes: an incoming entry as recent as the local
\* record replaces it
RECURSIVE importTimes_tieReplaces(_, _, _)
importTimes_tieReplaces(acc, times, payloadIds) ==
    IF times = <<>> THEN acc
    ELSE IF Head(times) = NullEntry THEN [acc EXCEPT !.thrown = TRUE]
    ELSE
    LET time == Head(times)
        resolvedName == resolveAthleteName(acc.persisted, time.athleteName)
        ensured == ensureAthleteExists(acc.persisted, resolvedName)
        importedLastModified ==
            IF time.last_modified # 0 THEN time.last_modified ELSE time.date
        at == findIndex(acc.existingMap, time.id)
        newId == IF time.id # 0 THEN time.id
                 ELSE FreshId(RecordIds(acc.existingMap) \cup payloadIds)
        stored == [id |-> newId, athleteName |-> resolvedName,
                   last_modified |-> importedLastModified]
    IN  IF ~time.valid
        THEN importTimes_tieReplaces([acc EXCEPT !.errors = @ + 1, !.skipped = @ + 1],
                         Tail(times), payloadIds)
        ELSE IF time.id # 0 /\ at # 0
        THEN IF importedLastModified >= acc.existingMap[at].last_modified
             THEN importTimes_tieReplaces([acc EXCEPT !.persisted = ensured,
                                          !.existingMap = mapSet(@, stored),
                                          !.updated = @ + 1],
                              Tail(times), payloadIds)
             ELSE importTimes_tieReplaces([acc EXCEPT !.persisted = ensured,
                                          !.skipped = @ + 1],
                              Tail(times), payloadIds)
        ELSE importTimes_tieReplaces([acc EXCEPT !.persisted = ensured,
                                     !.existingMap = mapSet(@, stored),
                                     !.imported = @ + 1],
                         Tail(times), payloadIds)

\* for (const time of importedTimes) { ... }
\* acc.persisted is the athletes array in localStorage, which
\* resolveAthleteName reads and ensureAthleteExists reads and writes;
\* acc.existingMap is the local map of the loop; acc.thrown: the loop was
\* left by a TypeError, which the catch of importData handles.
RECURSIVE importTimes(_, _, _)
importTimes(acc, times, payloadIds) ==
    IF times = <<>> THEN acc
    ELSE IF Head(times) = NullEntry THEN [acc EXCEPT !.thrown = TRUE]
    ELSE
    LET time == Head(times)
        resolvedName == resolveAthleteName(acc.persisted, time.athleteName)
        ensured == ensureAthleteExists(acc.persisted, resolvedName)
        importedLastModified ==
            IF time.last_modified # 0 THEN time.last_modified ELSE time.date
        at == findIndex(acc.existingMap, time.id)
        newId == IF time.id # 0 THEN time.id
                 ELSE FreshId(RecordIds(acc.existingMap) \cup payloadIds)
        stored == [id |-> newId, athleteName |-> resolvedName,
                   last_modified |-> importedLastModified]
    IN  IF ~time.valid
        THEN importTimes([acc EXCEPT !.errors = @ + 1, !.skipped = @ + 1],
                         Tail(times), payloadIds)
        ELSE IF time.id # 0 /\ at # 0
        THEN IF importedLastModified > acc.existingMap[at].last_modified
             THEN importTimes([acc EXCEPT !.persisted = ensured,
                                          !.existingMap = mapSet(@, stored),
                                          !.updated = @ + 1],
                              Tail(times), payloadIds)
             ELSE importTimes([acc EXCEPT !.persisted = ensured,
                                          !.skipped = @ + 1],
                              Tail(times), payloadIds)
        ELSE importTimes([acc EXCEPT !.persisted = ensured,
                                     !.existingMap = mapSet(@, stored),
                                     !.imported = @ + 1],
                         Tail(times), payloadIds)

\* counts: <<imported, updated, skipped, athletesImported, errors.length>>
ImportResult(ok, aths, recs, counts, conflicts) ==
    [ok |-> ok, athletes |-> aths, swimTimes |-> recs,
     imported |-> counts[1], updated |-> counts[2], skipped |-> counts[3],
     athletesImported |-> counts[4], conflicts |-> conflicts,
     errors |-> counts[5]]

\* Faulty variant of importData: a payload without an array of entries still
\* gets its athletes saved
importData_savesIdentityPass(aths, recs, payload) ==
    IF payload.shape = "unparseable"
    THEN ImportResult(FALSE, aths, recs, <<0, 0, 0, 0, 1>>, <<>>)
    ELSE
    LET ids == importAthletes(aths, <<>>, 0, payload.athletes)
    IN  IF payload.shape = "norecords"
        THEN ImportResult(FALSE, ids.athletes, recs,
                          <<0, 0, 0, ids.athletesImported, 1>>, ids.conflicts)
        ELSE
        LET payloadIds == RecordIds(payload.records) \ {0}
            pass == importTimes([persisted |-> aths,
                                 existingMap |-> newMap(<<>>, recs),
                                 imported |-> 0, updated |-> 0,
                                 skipped |-> 0, errors |-> 0,
                                 thrown |-> FALSE],
                                payload.records, payloadIds)
        IN  IF pass.thrown
            THEN ImportResult(FALSE, pass.persisted, recs,
                              <<pass.imported, pass.updated, pass.skipped,
                                ids.athletesImported, pass.errors + 1>>,
                              ids.conflicts)
            ELSE
            ImportResult(ids.conflicts = <<>>, ids.athletes, pass.existingMap,
                         <<pass.imported, pass.updated, pass.skipped,
                           ids.athletesImported, pass.errors>>,
                         ids.conflicts)

\* The result's athletes / swimTimes are the snapshot persisted when the call
\* returns: the final saveData(data) writes the `data` loaded at the start
\* (with the identity pass applied to it), not what ensureAthleteExists saved
\* during the record pass.  When the record pass throws, the catch returns
\* without saveData(data): what ensureAthleteExists saved stays persisted.
\* errors is the length of result.errors.
importData(aths, recs, payload) ==
    IF payload.shape = "unparseable"
    THEN ImportResult(FALSE, aths, recs, <<0, 0, 0, 0, 1>>, <<>>)
    ELSE
    LET ids == importAthletes(aths, <<>>, 0, payload.athletes)
    IN  IF payload.shape = "norecords"
        THEN ImportResult(FALSE, aths, recs,
                          <<0, 0, 0, ids.athletesImported, 1>>, ids.conflicts)
        ELSE
        LET payloadIds == RecordIds(payload.records) \ {0}
            pass == importTimes([persisted |-> aths,
                                 existingMap |-> newMap(<<>>, recs),
                                 imported |-> 0, updated |-> 0,
                                 skipped |-> 0, errors |-> 0,
                                 thrown |-> FALSE],
                                payload.records, payloadIds)
        IN  IF pass.thrown
            THEN ImportResult(FALSE, pass.persisted, recs,
                              <<pass.imported, pass.updated, pass.skipped,
                                ids.athletesImported, pass.errors + 1>>,
                              ids.conflicts)
            ELSE
            ImportResult(ids.conflicts = <<>>, ids.athletes, pass.existingMap,
                         <<pass.imported, pass.updated, pass.skipped,
                           ids.athletesImported, pass.errors>>,
                         ids.conflicts)

\* Faulty variant of exportData: the athletes are left out of the export
exportData_noAthletes(aths, recs) ==
    Payload("object", <<>>,
            [k \in 1..Len(recs) |->
                [valid |-> TRUE, id |-> recs[k].id,
                 athleteName |-> recs[k].athleteName,
                 last_modified |-> recs[k].last_modified, date |-> 1]])

\* JSON.stringify({version, exportedAt, athletes, time_entries: swimTimes}),
\* as importData parses it: every stored record becomes an entry with its
\* id, athleteName and last_modified; its other attributes are present
\* (valid) and its date is not read, since last_modified is present.
exportData(aths, recs) ==
    Payload("object",
            [k \in 1..Len(aths) |->
                [canonicalName |-> aths[k].canonicalName,
                 aliases |-> aths[k].aliases]],
            [k \in 1..Len(recs) |->
                [valid |-> TRUE, id |-> recs[k].id,
                 athleteName |-> recs[k].athleteName,
                 last_modified |-> recs[k].last_modified, date |-> 1]])

(***************************************************************************)
(* Similarity Scorer: calculateNameSimilarity / levenshteinDistance        *)
(*                                                                         *)
(* A JavaScript string is the sequence of its characters.  The characters  *)
(* of the model are letters (word characters, \w), the white space         *)
(* characters " " and tab (\s), and punctuation (neither).  A similarity   *)
(* is a rational number [num, den] with den > 0: the code computes         *)
(* 1 - distance / maxLength and adds 0.15 = 3 / 20 at most twice, so every *)
(* value is a multiple of 1 / (20 * maxLength).                            *)
(***************************************************************************)
WhiteSpace == {" ", "\t"}

Punctuation == {".", "-", "'"}

IsSpace(c) == c \in WhiteSpace

\* /[\w\s]/: what .replace(/[^\w\s]/g, '') keeps
IsWordOrSpace(c) == c \notin Punctuation

UpperCase ==
    <<"A", "B", "C", "D", "E", "F", "G", "H", "I", "J", "K", "L", "M",
      "N", "O", "P", "Q", "R", "S", "T", "U", "V", "W", "X", "Y", "Z">>

LowerCase ==
    <<"a", "b", "c", "d", "e", "f", "g", "h", "i", "j", "k", "l", "m",
      "n", "o", "p", "q", "r", "s", "t", "u", "v", "w", "x", "y", "z">>

\* String.prototype.toLowerCase, character by character
toLowerCase(s) ==
    [i \in 1..Len(s) |->
        IF \E k \in 1..Len(UpperCase) : UpperCase[k] = s[i]
        THEN LowerCase[CHOOSE k \in 1..Len(UpperCase) : UpperCase[k] = s[i]]
        ELSE s[i]]

RECURSIVE trimStart(_)
trimStart(s) ==
    IF s # <<>> /\ IsSpace(Head(s)) THEN trimStart(Tail(s)) ELSE s

RECURSIVE trimEnd(_)
trimEnd(s) ==
    IF s # <<>> /\ IsSpace(s[Len(s)])
    THEN trimEnd(SubSeq(s, 1, Len(s) - 1)) ELSE s

\* String.prototype.trim
trim(s) == trimEnd(trimStart(s))

\* .replace(/\s+/g, ' '): every run of white space becomes one space
RECURSIVE collapse(_)
collapse(s) ==
    IF s = <<>> THEN <<>>
    ELSE IF IsSpace(Head(s))
         THEN <<" ">> \o collapse(trimStart(s))
         ELSE <<Head(s)>> \o collapse(Tail(s))

\* Faulty variant of normalize: the name is not lower-cased
normalize_keepsCase(s) ==
    SelectSeq(collapse(trim(s)), IsWordOrSpace)

\* const normalize = (s) => s.toLowerCase().trim().replace(...).replace(...)
normalize(s) ==
    SelectSeq(collapse(trim(toLowerCase(s))), IsWordOrSpace)

\* String.prototype.split(' '): the pieces between single spaces
RECURSIVE split(_, _)
split(s, piece) ==
    IF s = <<>> THEN <<piece>>
    ELSE IF Head(s) = " " THEN <<piece>> \o split(Tail(s), <<>>)
         ELSE split(Tail(s), Append(piece, Head(s)))

Min2(x, y) == IF x <= y THEN x ELSE y

Max2(x, y) == IF x >= y THEN x ELSE y

\* matrix[i] of levenshteinDistance, filled for j = 1 .. str2.length from
\* matrix[i - 1] (prev); a row is the sequence of matrix[i][0 .. ]
RECURSIVE matrixRow(_, _, _, _)
matrixRow(prev, cur, c, str2) ==
    LET j == Len(cur)
    IN  IF j > Len(str2) THEN cur
        ELSE matrixRow(prev,
                       Append(cur,
                              IF c = str2[j]
                              THEN prev[j]
                              ELSE Min2(prev[j] + 1,
                                        Min2(cur[j] + 1, prev[j + 1] + 1))),
                       c, str2)

RECURSIVE matrixRows(_, _, _, _)
matrixRows(prev, i, str1, str2) ==
    IF i > Len(str1) THEN prev
    ELSE matrixRows(matrixRow(prev, <<i>>, str1[i], str2), i + 1, str1, str2)

levenshteinDistance(str1, str2) ==
    matrixRows([j \in 1..(Len(str2) + 1) |-> j - 1], 1, str1, str2)[Len(str2) + 1]

Rational(num, den) == [num |-> num, den |-> den]

\* Math.min(1.0, similarity + 0.15)
\* Faulty variant of addBonus: the sum is not capped by Math.min(1.0, ...)
addBonus_uncapped(sim) == Rational(sim.num + 3 * (sim.den \div 20), sim.den)

addBonus(sim) == Rational(Min2(sim.den, sim.num + 3 * (sim.den \div 20)), sim.den)

\* Faulty variant of calculateNameSimilarity: the distance is divided by the
\* length of the first name instead of the longer of the two
calculateNameSimilarity_firstLength(str1, str2) ==
    LET normalized1 == normalize(str1)
        normalized2 == normalize(str2)
        distance == levenshteinDistance(normalized1, normalized2)
        maxLength == Len(normalized1)
        similarity0 == Rational(20 * (maxLength - distance), 20 * maxLength)
        parts1 == split(normalized1, <<>>)
        parts2 == split(normalized2, <<>>)
        similarity1 == IF parts1[1] = parts2[1]
                       THEN addBonus(similarity0) ELSE similarity0
        similarity2 == IF parts1[Len(parts1)] = parts2[Len(parts2)]
                       THEN addBonus(similarity1) ELSE similarity1
    IN  IF normalized1 = normalized2 THEN Rational(1, 1)
        ELSE IF Len(parts1) > 1 /\ Len(parts2) > 1 THEN similarity2
        ELSE similarity0

calculateNameSimilarity(str1, str2) ==
    LET a == normalize(str1)
        b == normalize(str2)
        distance == levenshteinDistance(a, b)
        maxLength == Max2(Len(a), Len(b))
        similarity0 == Rational(20 * (maxLength - distance), 20 * maxLength)
        partsA == split(a, <<>>)
        partsB == split(b, <<>>)
        similarity1 == IF partsA[1] = partsB[1]
                       THEN addBonus(similarity0) ELSE similarity0
        similarity2 == IF partsA[Len(partsA)] = partsB[Len(partsB)]
                       THEN addBonus(similarity1) ELSE similarity1
    IN  IF a = b THEN Rational(1, 1)
        ELSE IF Len(partsA) > 1 /\ Len(partsB) > 1 THEN similarity2
        ELSE similarity0

(***************************************************************************)
(* Duplicate detector.  A name of the store is a string; the scorer reads  *)
(* its characters.                                                         *)
(***************************************************************************)
JohnSmith == <<"J", "o", "h", "n", " ", "S", "m", "i", "t", "h">>

JonSmith == <<"J", "o", "n", " ", "S", "m", "i", "t", "h">>

BobJones == <<"B", "o", "b", " ", "J", "o", "n", "e", "s">>

BobbyJones == <<"B", "o", "b", "b", "y", " ", "J", "o", "n", "e", "s">>

RobertJones == <<"R", "o", "b", "e", "r", "t", " ", "J", "o", "n", "e", "s">>

\* Spellings of one name that differ by letter case, white space or
\* punctuation
RawNames == {"Ann Lee", "ann lee", "Ann  Lee", "AnnLee", "Ann-Lee"}

\* The characters of a name
Spell(name) ==
    CASE name = "Bob Jones" -> BobJones
      [] name = "Bobby Jones" -> BobbyJones
      [] name = "Robert Jones" -> RobertJones
      [] name = "Ann Lee" -> <<"A", "n", "n", " ", "L", "e", "e">>
      [] name = "ann lee" -> <<"a", "n", "n", " ", "l", "e", "e">>
      [] name = "Ann  Lee" -> <<"A", "n", "n", " ", " ", "L", "e", "e">>
      [] name = "AnnLee" -> <<"A", "n", "n", "L", "e", "e">>
      [] name = "Ann-Lee" -> <<"A", "n", "n", "-", "L", "e", "e">>

\* data.swimTimes.filter(t => t.athleteName === name).length
timesCount(recs, name) ==
    Cardinality({k \in 1..Len(recs) : recs[k].athleteName = name})

\* x >= y for two scores
AtLeast(x, y) == x.num * y.den >= y.num * x.den

\* Array.prototype.sort((a, b) => b.similarity - a.similarity): stable, by
\* descending similarity
RECURSIVE sortBySimilarity(_)
sortBySimilarity(duplicates) ==
    IF duplicates = <<>> THEN <<>>
    ELSE LET d == Head(duplicates)
             rest == sortBySimilarity(Tail(duplicates))
             ahead == {k \in 1..Len(rest) :
                          ~AtLeast(d.similarity, rest[k].similarity)}
             n == Cardinality({k \in 1..Len(rest) :
                                  \A m \in 1..k : m \in ahead})
         IN  SubSeq(rest, 1, n) \o <<d>> \o SubSeq(rest, n + 1, Len(rest))

\* The candidates pushed by the loops over i < j, in the order pushed
RECURSIVE candidates(_, _, _, _, _)
candidates(aths, recs, threshold, i, j) ==
    IF i > Len(aths) THEN <<>>
    ELSE IF j > Len(aths) THEN candidates(aths, recs, threshold, i + 1, i + 2)
    ELSE LET name1 == aths[i].canonicalName
             name2 == aths[j].canonicalName
             similarity == calculateNameSimilarity(Spell(name1), Spell(name2))
             rest == candidates(aths, recs, threshold, i, j + 1)
         IN  IF AtLeast(similarity, threshold)
             THEN <<[athlete1 |-> name1,
                     athlete2 |-> name2,
                     similarity |-> similarity,
                     timesCount1 |-> timesCount(recs, name1),
                     timesCount2 |-> timesCount(recs, name2)]>> \o rest
             ELSE rest

\* Faulty variant of findPotentialDuplicates: the candidates are returned in
\* the order pushed
findPotentialDuplicates_unsorted(aths, recs, threshold) ==
    [value |-> candidates(aths, recs, threshold, 1, 2),
     athletes |-> aths,
     swimTimes |-> recs]

\* The candidates returned and the snapshot the call leaves
findPotentialDuplicates(aths, recs, threshold) ==
    [value |-> sortBySimilarity(candidates(aths, recs, threshold, 1, 2)),
     athletes |-> aths,
     swimTimes |-> recs]

(***************************************************************************)
(* Actions: one per public method; each persists what the method leaves.   *)
(***************************************************************************)
\* Number of name strings the athletes array holds (canonical names and aliases)
RECURSIVE NameCount(_)
NameCount(aths) ==
    IF aths = <<>> THEN 0
    ELSE 1 + Len(Head(aths).aliases) + NameCount(Tail(aths))

\* The model keeps the store within its bounds
WithinBounds(out) ==
    /\ NameCount(out.athletes) <= MaxNames
    /\ Len(out.swimTimes) <= MaxRecs

Commit(out) ==
    /\ WithinBounds(out)
    /\ athletes' = out.athletes
    /\ swimTimes' = out.swimTimes
    /\ UNCHANGED <<clock, scorer>>

Record ==
    \E n \in Names : Commit(createSwimTime(athletes, swimTimes, n, clock))

Edit ==
    \E id \in RecIds, n \in Names \cup {NoName} :
        Commit(updateSwimTime(athletes, swimTimes, id, n, clock))

Delete ==
    \E id \in RecIds : Commit(deleteSwimTime(athletes, swimTimes, id))

Merge ==
    \E f \in Names, t \in Names :
        Commit(mergeAthletes(athletes, swimTimes, f, t))

RenameCanonical ==
    \E c \in Names, n \in Names :
        Commit(renameAthleteCanonical(athletes, swimTimes, c, n))

MergeWithFinalName ==
    \E f \in Names, t \in Names, n \in Names :
        Commit(mergeAthletesWithFinalName(athletes, swimTimes, f, t, n))

UnmergeAlias ==
    \E x \in Names : Commit(unmergeAlias(athletes, swimTimes, x))

Reconcile ==
    \E a \in SeqUpTo(InAthletes, MaxInAth), r \in SeqUpTo(InRecords, MaxInRec) :
        \E p \in PayloadsOf(a, r) : Commit(importData(athletes, swimTimes, p))

\* Time passes between calls
Tick ==
    /\ clock < MaxClock
    /\ clock' = clock + 1
    /\ UNCHANGED <<athletes, swimTimes, scorer>>

\* No call of the scorer has returned
NoScore == [num |-> 0, den |-> 0]

Init ==
    /\ athletes = <<>>
    /\ swimTimes = <<>>
    /\ clock = 1
    /\ scorer = [str1 |-> <<>>, str2 |-> <<>>, similarity |-> NoScore]

Next ==
    \/ Record
    \/ Edit
    \/ Delete
    \/ Merge
    \/ RenameCanonical
    \/ MergeWithFinalName
    \/ UnmergeAlias
    \/ Reconcile
    \/ Tick

Spec == Init /\ [][Next]_vars

(***************************************************************************)
(* The similarity scorer on its own: calculateNameSimilarity is a pure     *)
(* function of its two arguments, which are drawn from every string of at  *)
(* most MaxLen characters of Alphabet and from the spelled-out names.      *)
(***************************************************************************)
Alphabet == {"a", "b", "A", " ", "\t", "."}

Spelled ==
    { JohnSmith, JonSmith, BobJones, BobbyJones, RobertJones,
      <<"b", "o", "b", " ", " ", "J", "O", "N", "E", "S", ".">>,
      <<"O", "'", "N", "e", "i", "l">>,
      <<".", " ", "A", "n", "n", " ", "L", "e", "e">> }

Strings == SeqUpTo(Alphabet, MaxLen) \cup Spelled

InitScorer ==
    /\ athletes = <<>>
    /\ swimTimes = <<>>
    /\ clock = 1
    /\ \E s1 \in Strings, s2 \in Strings :
           scorer = [str1 |-> s1, str2 |-> s2, similarity |-> NoScore]

Score ==
    /\ scorer.similarity = NoScore
    /\ scorer' = [scorer EXCEPT
                     !.similarity = calculateNameSimilarity(scorer.str1, scorer.str2)]
    /\ UNCHANGED <<athletes, swimTimes, clock>>

NextScorer == Score

SpecScorer == InitScorer /\ [][NextScorer]_vars

(***************************************************************************)
(* The store used with the spellings of RawNames: records are created      *)
(* under any of them and deleted, and athletes are merged.                 *)
(***************************************************************************)
RecordRaw ==
    \E n \in RawNames :
        LET out == createSwimTime(athletes, swimTimes, n, clock)
        IN  /\ Len(out.athletes) <= MaxRawAthletes
            /\ Commit(out)

DeleteRaw ==
    \E id \in RecIds : Commit(deleteSwimTime(athletes, swimTimes, id))

MergeRaw ==
    \E f \in RawNames, t \in RawNames :
        Commit(mergeAthletes(athletes, swimTimes, f, t))

NextRaw ==
    \/ RecordRaw
    \/ DeleteRaw
    \/ MergeRaw

SpecRaw == Init /\ [][NextRaw]_vars

(***************************************************************************)
(* The store without reconcile, started in any snapshot whose name strings *)
(* occur once: every list of athletes over Names that uses no name twice,  *)
(* with any record.                                                        *)
(***************************************************************************)
UniqueStores ==
    {aths \in SeqUpTo([canonicalName : Names,
                       aliases : SeqUpTo(Names, Cardinality(Names) - 1)],
                      Cardinality(Names)) :
        NameCount(aths) =
            Cardinality(UNION {{aths[i].canonicalName}
                                  \cup {aths[i].aliases[j] : j \in 1..Len(aths[i].aliases)} :
                               i \in 1..Len(aths)})}

InitLocal ==
    /\ athletes \in UniqueStores
    /\ swimTimes \in SeqUpTo([id : RecIds, athleteName : Names,
                              last_modified : Stamps], MaxRecs)
    /\ clock \in Stamps
    /\ scorer = [str1 |-> <<>>, str2 |-> <<>>, similarity |-> NoScore]

NextLocal ==
    \/ Record
    \/ Edit
    \/ Delete
    \/ Merge
    \/ RenameCanonical
    \/ MergeWithFinalName
    \/ UnmergeAlias

SpecLocal == InitLocal /\ [][NextLocal]_vars

(***************************************************************************)
(* Store predicates                                                        *)
(***************************************************************************)
NameSet(aths) ==
    UNION {{aths[i].canonicalName} \cup Range(aths[i].aliases) : i \in 1..Len(aths)}

\* Every name string occurs once among all canonical names and alias arrays
UniqueNames(aths) == NameCount(aths) = Cardinality(NameSet(aths))

\* Every record is labelled with the canonical name of some athlete
RecordsCanonical(aths, recs) ==
    \A k \in 1..Len(recs) : getAthlete(aths, recs[k].athleteName) # 0

StoreInv(aths, recs) == UniqueNames(aths) /\ RecordsCanonical(aths, recs)

NoDuplicates(s) == Len(s) = Cardinality(Range(s))

Unchanged(out) == out.athletes = athletes /\ out.swimTimes = swimTimes

(***************************************************************************)
(* Claims                                                                  *)
(***************************************************************************)

\* C1: after any sequence of engine operations from the empty store, every
\* name string occurs at most once across all canonical names and alias sets.
C1_UniqueNames == UniqueNames(athletes)

\* C2: after any sequence of engine operations from the empty store, every
\* stored record's athleteName is the canonical name of some stored athlete.
C2_RecordsCanonical == RecordsCanonical(athletes, swimTimes)

\* C3: a merge(A, B) that succeeds from a store satisfying the invariants
\* leaves every record that was under resolve(A) under the pre-call
\* resolve(B), leaves no athlete with canonical name resolve(A), and makes
\* resolve(A) = resolve(B).
C3_MergeRelabels ==
    \A A \in Names, B \in Names :
        LET m == mergeAthletes(athletes, swimTimes, A, B)
            rA == resolveAthleteName(athletes, A)
            rB == resolveAthleteName(athletes, B)
        IN  (StoreInv(athletes, swimTimes) /\ m.ok) =>
                /\ \A k \in 1..Len(swimTimes) :
                       swimTimes[k].athleteName = rA =>
                           \E j \in 1..Len(m.swimTimes) :
                               /\ m.swimTimes[j].id = swimTimes[k].id
                               /\ m.swimTimes[j].athleteName = rB
                /\ getAthlete(m.athletes, rA) = 0
                /\ resolveAthleteName(m.athletes, A) =
                       resolveAthleteName(m.athletes, B)

\* C3 witness: a store satisfying the invariants in which an alias A of an
\* athlete with a record is merged into another athlete.
C3_Witness ==
    \E A \in Names, B \in Names :
        /\ StoreInv(athletes, swimTimes)
        /\ mergeAthletes(athletes, swimTimes, A, B).ok
        /\ resolveAthleteName(athletes, A) # A
        /\ \E k \in 1..Len(swimTimes) :
               swimTimes[k].athleteName = resolveAthleteName(athletes, A)

\* Position of the athlete at position k once the athlete at position gone
\* has been removed from the array
Shift(k, gone) == IF k < gone THEN k ELSE k - 1

\* C4: a merge(from, to) that succeeds keeps the canonical name of the `to`
\* athlete, makes its alias array hold exactly its old aliases, resolve(from)
\* and the old aliases of `from`, no entry twice, removes the `from` athlete
\* and lowers the number of athletes by exactly one.
C4_MergeAliases ==
    \A f \in Names, t \in Names :
        LET m == mergeAthletes(athletes, swimTimes, f, t)
            rf == resolveAthleteName(athletes, f)
            rt == resolveAthleteName(athletes, t)
            fi == getAthlete(athletes, rf)
            ti == getAthlete(athletes, rt)
        IN  m.ok =>
                /\ Len(m.athletes) = Len(athletes) - 1
                /\ \A k \in 1..Len(athletes) :
                       k # fi => m.athletes[Shift(k, fi)].canonicalName =
                                     athletes[k].canonicalName
                /\ Range(m.athletes[Shift(ti, fi)].aliases) =
                       Range(athletes[ti].aliases) \cup {rf}
                           \cup Range(athletes[fi].aliases)
                /\ NoDuplicates(m.athletes[Shift(ti, fi)].aliases)

\* C5: merge(from, to) fails when both names resolve to the same name or
\* when either resolved name is no athlete's canonical name, and a failing
\* merge leaves athletes and records as they were.
C5_MergeRejects ==
    \A f \in Names, t \in Names :
        LET m == mergeAthletes(athletes, swimTimes, f, t)
            rf == resolveAthleteName(athletes, f)
            rt == resolveAthleteName(athletes, t)
        IN  /\ (\/ rf = rt
                \/ getAthlete(athletes, rf) = 0
                \/ getAthlete(athletes, rt) = 0) => ~m.ok
            /\ ~m.ok => Unchanged(m)

\* C5 witness: an athlete with records and an alias; merging the alias into
\* its own athlete is rejected.
C5_Witness ==
    \E f \in Names, t \in Names :
        /\ f # t
        /\ getAthlete(athletes, t) # 0
        /\ resolveAthleteName(athletes, f) = t
        /\ swimTimes # <<>>
        /\ ~mergeAthletes(athletes, swimTimes, f, t).ok

\* C6: a mergeWithFinalName that fails leaves athletes and records as they
\* were (never the merge applied and the rename not applied).
C6_AllOrNothing ==
    \A f \in Names, t \in Names, n \in Names :
        LET o == mergeAthletesWithFinalName(athletes, swimTimes, f, t, n)
        IN  ~o.ok => Unchanged(o)

\* C7: in a store with unique names, for F and T resolving to two distinct
\* athletes and finalName any of their canonical names and aliases (the set
\* U), mergeWithFinalName succeeds, one athlete replaces the two, its
\* canonical name is finalName, its aliases are exactly U \ {finalName}, and
\* every record that was under either canonical name is under finalName.
C7_MergeWithFinalName ==
    \A F \in Names, T \in Names, finalName \in Names :
        LET o == mergeAthletesWithFinalName(athletes, swimTimes, F, T, finalName)
            rF == resolveAthleteName(athletes, F)
            rT == resolveAthleteName(athletes, T)
            fi == getAthlete(athletes, rF)
            ti == getAthlete(athletes, rT)
            U == {rF, rT} \cup Range(athletes[fi].aliases)
                          \cup Range(athletes[ti].aliases)
        IN  (/\ UniqueNames(athletes)
             /\ fi # 0 /\ ti # 0 /\ fi # ti
             /\ finalName \in U) =>
                /\ o.ok
                /\ Len(o.athletes) = Len(athletes) - 1
                /\ o.athletes[Shift(ti, fi)].canonicalName = finalName
                /\ Range(o.athletes[Shift(ti, fi)].aliases) = U \ {finalName}
                /\ NoDuplicates(o.athletes[Shift(ti, fi)].aliases)
                /\ \A k \in 1..Len(athletes) :
                       k \notin {fi, ti} => o.athletes[Shift(k, fi)] = athletes[k]
                /\ Len(o.swimTimes) = Len(swimTimes)
                /\ \A k \in 1..Len(swimTimes) :
                       swimTimes[k].athleteName \in {rF, rT} =>
                           o.swimTimes[k].athleteName = finalName

\* C7 witness, the instance of the claim: "Bob Jones" with alias "Bobby
\* Jones" and a record, merged into "Robert Jones" with final name "Bobby
\* Jones", gives canonical "Bobby Jones" with aliases "Robert Jones" and
\* "Bob Jones".
C7_Witness ==
    /\ UniqueNames(athletes)
    /\ getAthlete(athletes, "Bob Jones") # 0
    /\ getAthlete(athletes, "Robert Jones") # 0
    /\ Includes(athletes[getAthlete(athletes, "Bob Jones")].aliases, "Bobby Jones")
    /\ \E k \in 1..Len(swimTimes) : swimTimes[k].athleteName = "Bob Jones"
    /\ LET o == mergeAthletesWithFinalName(athletes, swimTimes, "Bob Jones",
                                           "Robert Jones", "Bobby Jones")
       IN  /\ o.ok
           /\ Len(o.athletes) = 1
           /\ o.athletes[1].canonicalName = "Bobby Jones"
           /\ Range(o.athletes[1].aliases) = {"Robert Jones", "Bob Jones"}

\* C8: renameCanonical(c, n), with c the canonical name of an athlete and
\* n # c one of that athlete's aliases, relabels every record under c to n,
\* makes n the canonical name of that athlete and its aliases exactly
\* (old aliases \ {n}) and c; no other athlete and no other record changes.
C8_RenameSwaps ==
    \A c \in Names, n \in Names :
        \A i \in 1..Len(athletes) :
            LET r == renameAthleteCanonical(athletes, swimTimes, c, n)
            IN  (/\ n # c
                 /\ athletes[i].canonicalName = c
                 /\ Includes(athletes[i].aliases, n)) =>
                    /\ r.ok
                    /\ Len(r.swimTimes) = Len(swimTimes)
                    /\ \A k \in 1..Len(swimTimes) :
                           r.swimTimes[k] =
                               IF swimTimes[k].athleteName = c
                               THEN [swimTimes[k] EXCEPT !.athleteName = n]
                               ELSE swimTimes[k]
                    /\ Len(r.athletes) = Len(athletes)
                    /\ r.athletes[i].canonicalName = n
                    /\ Range(r.athletes[i].aliases) =
                           (Range(athletes[i].aliases) \ {n}) \cup {c}
                    /\ \A k \in 1..Len(athletes) :
                           k # i => r.athletes[k] = athletes[k]

\* C9: renameCanonical(c, n) with n # c fails whenever n is not an alias of
\* the athlete whose canonical name is c (or there is no such athlete), and
\* then athletes and records are as they were.
C9_RenameRejects ==
    \A c \in Names, n \in Names :
        LET r == renameAthleteCanonical(athletes, swimTimes, c, n)
            i == getAthlete(athletes, c)
        IN  (n # c /\ (i = 0 \/ ~Includes(athletes[i].aliases, n))) =>
                ~r.ok /\ Unchanged(r)

\* C9 witness: c is an athlete with a record, n is an alias of another
\* athlete, and renaming c to n is rejected.
C9_Witness ==
    \E c \in Names, n \in Names :
        /\ n # c
        /\ getAthlete(athletes, c) # 0
        /\ aliasOwner(athletes, n) # 0
        /\ aliasOwner(athletes, n) # getAthlete(athletes, c)
        /\ ~Includes(athletes[getAthlete(athletes, c)].aliases, n)
        /\ \E k \in 1..Len(swimTimes) : swimTimes[k].athleteName = c
        /\ ~renameAthleteCanonical(athletes, swimTimes, c, n).ok

\* C10 as stated: renameCanonical(c, c) returns without an error and changes
\* nothing, for every string c.
C10_RenameSameAlwaysOk ==
    \A c \in Names :
        LET r == renameAthleteCanonical(athletes, swimTimes, c, c)
        IN  r.ok /\ Unchanged(r)

\* C10 amended: renameCanonical(c, c) changes no athlete and no record for
\* every string c; it returns without an error exactly when some athlete has
\* canonical name c, and throws otherwise.
C10_RenameSameNoChange ==
    \A c \in Names :
        LET r == renameAthleteCanonical(athletes, swimTimes, c, c)
        IN  /\ Unchanged(r)
            /\ r.ok <=> getAthlete(athletes, c) # 0

\* C10 witness: an athlete with an alias and a record, renamed to its own
\* canonical name, while another name is no athlete's canonical name.
C10_Witness ==
    \E c \in Names, d \in Names :
        /\ getAthlete(athletes, c) # 0
        /\ athletes[getAthlete(athletes, c)].aliases # <<>>
        /\ \E k \in 1..Len(swimTimes) : swimTimes[k].athleteName = c
        /\ renameAthleteCanonical(athletes, swimTimes, c, c).ok
        /\ getAthlete(athletes, d) = 0
        /\ ~renameAthleteCanonical(athletes, swimTimes, d, d).ok

\* C11: for every athlete O that has X among its aliases, unmergeAlias(X)
\* removes X from O's aliases and leaves O's canonical name and other aliases,
\* adds exactly one athlete, with canonical name X and no aliases, and
\* afterwards no record has athleteName X.
C11_UnmergeDetaches ==
    \A X \in Names :
        \A O \in 1..Len(athletes) :
            LET u == unmergeAlias(athletes, swimTimes, X)
            IN  Includes(athletes[O].aliases, X) =>
                    /\ u.ok
                    /\ Len(u.athletes) = Len(athletes) + 1
                    /\ u.athletes[O].canonicalName = athletes[O].canonicalName
                    /\ u.athletes[O].aliases =
                           SelectSeq(athletes[O].aliases, LAMBDA a : a # X)
                    /\ u.athletes[Len(u.athletes)] =
                           [canonicalName |-> X, aliases |-> <<>>]
                    /\ \A k \in 1..Len(u.swimTimes) :
                           u.swimTimes[k].athleteName # X

\* C12: unmergeAlias changes no record; after a merge(A, B) that succeeds,
\* unmergeAlias(A) succeeds, every record that was under A before the merge
\* is under resolve(B), every other record is as the merge left it, and no
\* record is under the re-created athlete A.
C12_UnmergeKeepsRecords ==
    /\ \A X \in Names : unmergeAlias(athletes, swimTimes, X).swimTimes = swimTimes
    /\ \A A \in Names, B \in Names :
           LET m == mergeAthletes(athletes, swimTimes, A, B)
               u == unmergeAlias(m.athletes, m.swimTimes, A)
           IN  m.ok =>
                   /\ u.ok
                   /\ u.swimTimes = m.swimTimes
                   /\ Len(u.swimTimes) = Len(swimTimes)
                   /\ \A k \in 1..Len(swimTimes) :
                          IF swimTimes[k].athleteName = A
                          THEN u.swimTimes[k] =
                                   [swimTimes[k] EXCEPT !.athleteName =
                                       resolveAthleteName(u.athletes, B)]
                          ELSE u.swimTimes[k] = m.swimTimes[k]
                   /\ \A k \in 1..Len(u.swimTimes) :
                          u.swimTimes[k].athleteName # A

\* C13: unmergeAlias(X) fails whenever no athlete has X among its aliases (X
\* unknown, or X only a canonical name), and then athletes and records are as
\* they were.
C13_UnmergeRejects ==
    \A X \in Names :
        LET u == unmergeAlias(athletes, swimTimes, X)
        IN  aliasOwner(athletes, X) = 0 => ~u.ok /\ Unchanged(u)

\* C13 witness: X is the canonical name of an athlete with a record and
\* nobody's alias, Y is unknown, and both unmergeAlias calls are rejected.
C13_Witness ==
    \E X \in Names, Y \in Names :
        /\ getAthlete(athletes, X) # 0
        /\ aliasOwner(athletes, X) = 0
        /\ \E k \in 1..Len(swimTimes) : swimTimes[k].athleteName = X
        /\ Y \notin NameSet(athletes)
        /\ ~unmergeAlias(athletes, swimTimes, X).ok
        /\ ~unmergeAlias(athletes, swimTimes, Y).ok

C15_ResolveCases ==
    \A x \in Names \cup {NoName} :
        LET r == resolve(athletes, swimTimes, x)
            isCanonical == \E i \in 1..Len(athletes) :
                               athletes[i].canonicalName = x
            owners == {i \in 1..Len(athletes) : Includes(athletes[i].aliases, x)}
        IN  /\ isCanonical => r.value = x
            /\ (~isCanonical /\ owners # {}) =>
                   \E i \in owners : r.value = athletes[i].canonicalName
            /\ (~isCanonical /\ owners = {}) => r.value = x
            /\ Unchanged(r)

\* C15 witness: one name is a canonical name, another is only an alias and
\* resolves to its owner, a third is unknown and resolves to itself, and a
\* record is stored.
C15_Witness ==
    \E c \in Names, a \in Names, u \in Names :
        /\ getAthlete(athletes, c) # 0
        /\ resolve(athletes, swimTimes, c).value = c
        /\ getAthlete(athletes, a) = 0
        /\ aliasOwner(athletes, a) # 0
        /\ resolve(athletes, swimTimes, a).value # a
        /\ u \notin NameSet(athletes)
        /\ resolve(athletes, swimTimes, u).value = u
        /\ swimTimes # <<>>

\* The incoming entries that carry every required field
ValidInRecords == {t \in InRecords : t.valid}

\* C16: createSwimTime with name n, and updateSwimTime of a stored record
\* with name n, leave persisted an athlete whose canonical name is
\* resolve(n), with no aliases if none existed before the call, and the
\* stored record is labelled with that canonical name.
C16_EnsuredAthletePersists ==
    \A n \in Names :
        LET rn == resolveAthleteName(athletes, n)
            c == createSwimTime(athletes, swimTimes, n, clock)
        IN  /\ getAthlete(c.athletes, rn) # 0
            /\ getAthlete(athletes, rn) = 0 =>
                   c.athletes[getAthlete(c.athletes, rn)].aliases = <<>>
            /\ c.swimTimes[Len(c.swimTimes)].athleteName = rn
            /\ \A id \in RecIds :
                   LET u == updateSwimTime(athletes, swimTimes, id, n, clock)
                   IN  u.ok =>
                           /\ getAthlete(u.athletes, rn) # 0
                           /\ getAthlete(athletes, rn) = 0 =>
                                  u.athletes[getAthlete(u.athletes, rn)].aliases = <<>>
                           /\ u.swimTimes[findIndex(u.swimTimes, id)].athleteName = rn

\* The record reconcile stored for the one incoming entry t: the record with
\* the id of t, or the last record when t carries no id
StoredFor(out, t) ==
    IF t.id # 0 THEN out.swimTimes[findIndex(out.swimTimes, t.id)]
    ELSE out.swimTimes[Len(out.swimTimes)]

\* C17: the record pass of reconcile resolves the name of each incoming
\* entry against the athletes as the identity pass of the same call left
\* them: an entry that is imported or updated is stored under the name its
\* athleteName resolves to in the athletes persisted by the call, also when
\* the alias was introduced by an incoming athlete of the same payload.
C17_IdentityPassFirst ==
    \A a \in SeqUpTo(InAthletes, MaxInAth), t \in ValidInRecords :
        LET out == importData(athletes, swimTimes, Payload("object", a, <<t>>))
            updatedStore == importAthletes(athletes, <<>>, 0, a).athletes
        IN  out.imported + out.updated = 1 =>
                StoredFor(out, t).athleteName =
                    resolveAthleteName(updatedStore, t.athleteName)

\* C18: after a reconcile call that completes, every record it imported or
\* updated is labelled with the canonical name of an athlete persisted when
\* the call returns, also for a payload that is a bare array of entries.
C18_ImportedRecordsCanonical ==
    \A a \in SeqUpTo(InAthletes, MaxInAth), r \in SeqUpTo(InRecords, MaxInRec) :
        \A p \in PayloadsOf(a, r) :
            LET out == importData(athletes, swimTimes, p)
            IN  p.shape \in {"object", "array"} =>
                    \A k \in 1..Len(out.swimTimes) :
                        out.swimTimes[k] \notin Range(swimTimes) =>
                            getAthlete(out.athletes, out.swimTimes[k].athleteName) # 0

\* C19: when the athlete at L owns the alias x and an incoming athlete with
\* another canonical name C lists x, reconcile reports exactly one conflict,
\* (x, canonical name of L, C), gives x to no other athlete, and x resolves
\* to the canonical name of L afterwards.
C19_AliasConflict ==
    \A x \in Names, C \in Names :
        \A L \in 1..Len(athletes) :
            LET incoming == <<[canonicalName |-> C, aliases |-> <<x>>]>>
                out == importData(athletes, swimTimes,
                                  Payload("object", incoming, <<>>))
            IN  (Includes(athletes[L].aliases, x)
                    /\ C # athletes[L].canonicalName) =>
                    /\ out.conflicts =
                           <<[alias |-> x,
                              localCanonical |-> athletes[L].canonicalName,
                              importedCanonical |-> C]>>
                    /\ \A k \in 1..Len(out.athletes) :
                           Includes(out.athletes[k].aliases, x) => k = L
                    /\ resolveAthleteName(out.athletes, x) =
                           athletes[L].canonicalName

\* What reconcile compares of an incoming entry: its last_modified, or its
\* date when last_modified is absent
IncomingStamp(t) == IF t.last_modified # 0 THEN t.last_modified ELSE t.date

GoodEntries(r) == SelectSeq(r, LAMBDA t : t.valid)

\* C21: once the payload has parsed and holds an array of entries, no entry
\* aborts the import: every entry that is not a valid one is counted skipped
\* with one message in the error list, the other entries of the batch are
\* imported, updated or skipped as they are without it, and that result is
\* what the call leaves persisted.
C21_BadEntriesSkipped ==
    \A r \in SeqUpTo(InRecords, MaxBatch) :
        LET out == importData(athletes, swimTimes, Payload("array", <<>>, r))
            ref == importData(athletes, swimTimes,
                              Payload("array", <<>>, GoodEntries(r)))
            bad == Len(r) - Len(GoodEntries(r))
        IN  /\ out.errors = bad
            /\ out.skipped = ref.skipped + bad
            /\ out.imported = ref.imported
            /\ out.updated = ref.updated
            /\ out.swimTimes = ref.swimTimes
            /\ out.athletes = ref.athletes

\* C22: when the payload does not parse, or parses but holds no array of
\* entries in an accepted shape, reconcile reports failure and athletes and
\* records are persisted exactly as before the call, also when the payload
\* lists athletes.
C22_MalformedPayloadRejected ==
    \A a \in SeqUpTo(InAthletes, MaxInAth) :
        \A p \in {Payload("unparseable", <<>>, <<>>), Payload("norecords", a, <<>>)} :
            LET out == importData(athletes, swimTimes, p)
            IN  ~out.ok /\ Unchanged(out)

\* C22 witness: a store with an athlete and a record; a payload without an
\* array of entries lists an athlete the store does not have and an alias for
\* one it has, and is rejected with the store as it was.
C22_Witness ==
    \E c \in Names, x \in Names :
        LET new == importData(athletes, swimTimes,
                       Payload("norecords",
                               <<[canonicalName |-> c, aliases |-> <<>>]>>, <<>>))
            old == importData(athletes, swimTimes,
                       Payload("norecords",
                               <<[canonicalName |-> athletes[1].canonicalName,
                                  aliases |-> <<x>>]>>, <<>>))
        IN  /\ athletes # <<>>
            /\ swimTimes # <<>>
            /\ getAthlete(athletes, c) = 0
            /\ x \notin NameSet(athletes)
            /\ new.athletesImported = 1
            /\ ~new.ok /\ Unchanged(new)
            /\ ~old.ok /\ Unchanged(old)
            /\ ~importData(athletes, swimTimes,
                           Payload("unparseable", <<>>, <<>>)).ok

\* C23: reconciling the export of a store that satisfies the invariants (all
\* of its records valid) against that store gives updated = 0, imported = 0,
\* skipped = the number of stored records and no alias conflict, and leaves
\* every athlete and every record as they were.
C23_SelfReconcile ==
    LET out == importData(athletes, swimTimes, exportData(athletes, swimTimes))
    IN  StoreInv(athletes, swimTimes) =>
            /\ out.updated = 0
            /\ out.imported = 0
            /\ out.skipped = Len(swimTimes)
            /\ out.conflicts = <<>>
            /\ out.errors = 0
            /\ Unchanged(out)

\* C23 witness: a store satisfying the invariants with two athletes, an
\* alias and a record, whose own export is skipped entirely.
C23_Witness ==
    LET out == importData(athletes, swimTimes, exportData(athletes, swimTimes))
    IN  /\ StoreInv(athletes, swimTimes)
        /\ Len(athletes) >= 2
        /\ \E i \in 1..Len(athletes) : athletes[i].aliases # <<>>
        /\ Len(swimTimes) = 1
        /\ out.skipped = 1
        /\ out.ok

InBatches ==
    SeqUpTo(InAthletes, MaxBatch) \cup
    {<<[canonicalName |-> c, aliases |-> al]>> :
        c \in Names, al \in SeqUpTo(Names, MaxBatch)}

IsPrefix(s, t) == Len(s) <= Len(t) /\ SubSeq(t, 1, Len(s)) = s

\* C30: in the identity pass of reconcile an incoming athlete whose canonical
\* name no stored athlete has is inserted with its canonical name and alias
\* list and counted once in athletesImported, also when the name occurs
\* twice in the payload; an incoming athlete whose canonical name a stored
\* athlete has creates no athlete, and each of its aliases that no other
\* athlete owns is added to the stored athlete's aliases, at most once.
C30_IdentityPass ==
    \A a \in InBatches :
        LET ids == importAthletes(athletes, <<>>, 0, a)
            localNames == {athletes[i].canonicalName : i \in 1..Len(athletes)}
            newNames == {a[k].canonicalName : k \in 1..Len(a)} \ localNames
            incomingFor(i) ==
                UNION {Range(a[k].aliases) : k \in
                    {j \in 1..Len(a) :
                        /\ a[j].canonicalName = athletes[i].canonicalName
                        /\ getAthlete(athletes, a[j].canonicalName) = i}}
        IN  /\ ids.athletesImported = Cardinality(newNames)
            /\ Len(ids.athletes) = Len(athletes) + Cardinality(newNames)
            /\ \A k \in 1..Len(a) :
                   (/\ a[k].canonicalName \in newNames
                    /\ \A j \in 1..(k - 1) : a[j].canonicalName # a[k].canonicalName)
                   =>
                   LET pos == getAthlete(ids.athletes, a[k].canonicalName)
                   IN  /\ pos > Len(athletes)
                       /\ IsPrefix(a[k].aliases, ids.athletes[pos].aliases)
                       /\ (\A j \in 1..Len(a) :
                               j # k => a[j].canonicalName # a[k].canonicalName)
                           => ids.athletes[pos].aliases = a[k].aliases
            /\ \A i \in 1..Len(athletes) :
                   LET old == athletes[i].aliases
                       new == ids.athletes[i].aliases
                       added == SubSeq(new, Len(old) + 1, Len(new))
                   IN  /\ ids.athletes[i].canonicalName = athletes[i].canonicalName
                       /\ IsPrefix(old, new)
                       /\ NoDuplicates(added)
                       /\ Range(added) \cap Range(old) = {}
                       /\ Range(added) \subseteq incomingFor(i)
                       /\ \A x \in incomingFor(i) :
                              /\ (\A j \in 1..Len(ids.athletes) :
                                      j # i => ~Includes(ids.athletes[j].aliases, x))
                                 => Includes(new, x)
                              /\ (\E j \in 1..Len(athletes) :
                                      j # i /\ Includes(athletes[j].aliases, x))
                                 => ~Includes(added, x)

\* C30 witness: a stored athlete without aliases; a payload naming a new
\* athlete twice inserts it once, and a payload listing the same new alias
\* twice for the stored athlete adds it once.
C30_Witness ==
    \E c \in Names, x \in Names :
        LET twice == importAthletes(athletes, <<>>, 0,
                         <<[canonicalName |-> c, aliases |-> <<x>>],
                           [canonicalName |-> c, aliases |-> <<x>>]>>)
            local == athletes[1].canonicalName
            dup == importAthletes(athletes, <<>>, 0,
                       <<[canonicalName |-> local, aliases |-> <<x, x>>]>>)
        IN  /\ Len(athletes) = 1
            /\ athletes[1].aliases = <<>>
            /\ c # local /\ x # local /\ x # c
            /\ twice.athletesImported = 1
            /\ Len(twice.athletes) = 2
            /\ twice.athletes[2] = [canonicalName |-> c, aliases |-> <<x>>]
            /\ dup.athletesImported = 0
            /\ dup.athletes = <<[canonicalName |-> local, aliases |-> <<x>>]>>

\* Every athlete stored before the call is stored after it, at its position,
\* under its canonical name or under one of its former aliases
KeepsAthletes(out) ==
    /\ Len(out.athletes) >= Len(athletes)
    /\ \A i \in 1..Len(athletes) :
           out.athletes[i].canonicalName \in
               {athletes[i].canonicalName} \cup Range(athletes[i].aliases)

\* C29: recording, editing or deleting a record, renameCanonical,
\* unmergeAlias and reconcile remove no athlete (every athlete stored before
\* the call is stored after it, possibly with canonical name and an alias
\* swapped); a merge that succeeds removes exactly one athlete, whose
\* canonical name is an alias of the winner afterwards, and the rename that
\* follows the merge in mergeAthletesWithFinalName removes none.
C29_OnlyMergeRemoves ==
    /\ \A n \in Names :
           /\ KeepsAthletes(createSwimTime(athletes, swimTimes, n, clock))
           /\ KeepsAthletes(unmergeAlias(athletes, swimTimes, n))
           /\ \A c \in Names :
                  KeepsAthletes(renameAthleteCanonical(athletes, swimTimes, c, n))
    /\ \A id \in RecIds :
           /\ KeepsAthletes(deleteSwimTime(athletes, swimTimes, id))
           /\ \A n \in Names \cup {NoName} :
                  KeepsAthletes(updateSwimTime(athletes, swimTimes, id, n, clock))
    /\ \A a \in SeqUpTo(InAthletes, MaxInAth), r \in SeqUpTo(InRecords, MaxInRec) :
           \A p \in PayloadsOf(a, r) :
               KeepsAthletes(importData(athletes, swimTimes, p))
    /\ \A f \in Names, t \in Names :
           LET m == mergeAthletes(athletes, swimTimes, f, t)
               rf == resolveAthleteName(athletes, f)
               fi == getAthlete(athletes, rf)
               ti == getAthlete(athletes, resolveAthleteName(athletes, t))
           IN  IF m.ok
               THEN /\ Len(m.athletes) = Len(athletes) - 1
                    /\ \A k \in 1..Len(athletes) :
                           k # fi => m.athletes[Shift(k, fi)].canonicalName =
                                         athletes[k].canonicalName
                    /\ Includes(m.athletes[Shift(ti, fi)].aliases, rf)
               ELSE m.athletes = athletes
    /\ \A f \in Names, t \in Names, n \in Names :
           Len(mergeAthletesWithFinalName(athletes, swimTimes, f, t, n).athletes)
               = Len(mergeAthletes(athletes, swimTimes, f, t).athletes)

\* C29 witness: two athletes, one with an alias, and the only record; the
\* record is deleted and both athletes stay, the canonical name is swapped
\* with the alias and both stay, and a merge removes one of them.
C29_Witness ==
    \E i \in 1..Len(athletes), j \in 1..Len(athletes) :
        LET d == deleteSwimTime(athletes, swimTimes, swimTimes[1].id)
            r == renameAthleteCanonical(athletes, swimTimes,
                     athletes[i].canonicalName, athletes[i].aliases[1])
            m == mergeAthletes(athletes, swimTimes, athletes[i].canonicalName,
                               athletes[j].canonicalName)
        IN  /\ Len(athletes) = 2
            /\ i # j
            /\ athletes[i].aliases # <<>>
            /\ Len(swimTimes) = 1
            /\ swimTimes[1].athleteName = athletes[i].canonicalName
            /\ d.ok /\ d.swimTimes = <<>> /\ d.athletes = athletes
            /\ r.ok /\ Len(r.athletes) = 2
            /\ r.athletes[i].canonicalName # athletes[i].canonicalName
            /\ m.ok /\ Len(m.athletes) = 1
            /\ StoreInv(athletes, swimTimes)

(***************************************************************************)
(* Similarity scorer (checked under SpecScorer)                            *)
(***************************************************************************)
\* The call of the scorer has returned
Scored == scorer.similarity # NoScore

\* Equality and order of two scores
SameScore(x, y) == x.num * y.den = y.num * x.den

\* C25: the score of (a, b) is the score of (b, a), and the score of (x, x)
\* is 1.0.
C25_Symmetric ==
    Scored =>
        /\ scorer.similarity.den > 0
        /\ SameScore(scorer.similarity,
                     calculateNameSimilarity(scorer.str2, scorer.str1))
        /\ scorer.str1 = scorer.str2 => scorer.similarity = Rational(1, 1)

\* C25 witness: "Bob Jones" against "Bobby Jones" scores 213/220 (distance
\* 2 of 11, both bonuses), as does the swapped call, and "Bob Jones" against
\* itself scores 1.0.
C25_Witness ==
    /\ Scored
    /\ scorer.str1 = BobJones /\ scorer.str2 = BobbyJones
    /\ scorer.similarity = Rational(213, 220)
    /\ calculateNameSimilarity(BobbyJones, BobJones) = Rational(213, 220)
    /\ calculateNameSimilarity(BobJones, BobJones) = Rational(1, 1)

\* Unit-cost edit distance by the classic recurrence: row i of the table
\* from row i - 1
RECURSIVE editRow(_, _, _, _)
editRow(above, row, c, t) ==
    LET j == Len(row)
    IN  IF j > Len(t) THEN row
        ELSE editRow(above,
                     Append(row, Min2(above[j] + (IF c = t[j] THEN 0 ELSE 1),
                                      Min2(row[j] + 1, above[j + 1] + 1))),
                     c, t)

RECURSIVE editRows(_, _, _, _)
editRows(above, i, s, t) ==
    IF i > Len(s) THEN above
    ELSE editRows(editRow(above, <<i>>, s[i], t), i + 1, s, t)

editDistance(s, t) ==
    editRows([j \in 1..(Len(t) + 1) |-> j - 1], 1, s, t)[Len(t) + 1]

\* The pieces of a normalized string between its spaces
tokens(s) ==
    LET cuts == <<0>> \o SelectSeq([i \in 1..Len(s) |-> IF s[i] = " " THEN i ELSE 0],
                                   LAMBDA i : i # 0) \o <<Len(s) + 1>>
    IN  [k \in 1..(Len(cuts) - 1) |-> SubSeq(s, cuts[k] + 1, cuts[k + 1] - 1)]

\* The score by steps 1 to 5 of the scorer's definition, in twentieths of
\* 1 / max(len): 1.0 for equal names; otherwise base = 1 - d / max(len)
\* (1.0 when both normalize to empty), plus 0.15 capped at 1.0 for equal
\* first tokens and for equal last tokens when both have two tokens or more
similarity(a, b) ==
    LET na == normalize(a)
        nb == normalize(b)
        longer == Max2(Len(na), Len(nb))
        unit == 20 * longer
        base == unit - 20 * editDistance(na, nb)
        ta == tokens(na)
        tb == tokens(nb)
        first == IF ta[1] = tb[1] THEN Min2(unit, base + 3 * longer) ELSE base
        last == IF ta[Len(ta)] = tb[Len(tb)]
                THEN Min2(unit, first + 3 * longer) ELSE first
    IN  IF a = b \/ longer = 0 THEN Rational(1, 1)
        ELSE IF Len(ta) >= 2 /\ Len(tb) >= 2 THEN Rational(last, unit)
        ELSE Rational(base, unit)

\* C26: the score of every pair of names is the value steps 1 to 5 define,
\* it is defined and lies in [0,1], also when one name normalizes to the
\* empty string, and "John Smith" against "Jon Smith" scores 1.0.
C26_ScoreAsSpecified ==
    /\ Scored =>
        /\ scorer.similarity.den > 0
        /\ scorer.similarity.num >= 0
        /\ scorer.similarity.num <= scorer.similarity.den
        /\ SameScore(scorer.similarity, similarity(scorer.str1, scorer.str2))
    /\ (Scored /\ scorer.str1 = JohnSmith /\ scorer.str2 = JonSmith) =>
           SameScore(scorer.similarity, Rational(1, 1))

\* C26 witness: "John Smith" against "Jon Smith" has base 0.9 and equal last
\* tokens, and is scored 1.0; "." normalizes to the empty string and scores
\* 0 against "a".
C26_Witness ==
    /\ Scored
    /\ scorer.str1 = JohnSmith /\ scorer.str2 = JonSmith
    /\ levenshteinDistance(normalize(JohnSmith), normalize(JonSmith)) = 1
    /\ scorer.similarity = Rational(200, 200)
    /\ normalize(<<".">>) = <<>>
    /\ calculateNameSimilarity(<<".">>, <<"a">>) = Rational(0, 20)

(***************************************************************************)
(* Duplicate detector (checked under Spec)                                 *)
(***************************************************************************)
\* The thresholds findPotentialDuplicates is called with; 0.85 is its default
Thresholds == {Rational(0, 1), Rational(4, 5), Rational(17, 20), Rational(1, 1)}

\* The score of every two names of the model
NameScore ==
    [n1 \in Names, n2 \in Names |-> calculateNameSimilarity(Spell(n1), Spell(n2))]

\* The pairs of stored athletes whose canonical names score at least the
\* threshold
SimilarPairs(threshold) ==
    {p \in (1..Len(athletes)) \X (1..Len(athletes)) :
        /\ p[1] < p[2]
        /\ AtLeast(NameScore[athletes[p[1]].canonicalName,
                             athletes[p[2]].canonicalName],
                   threshold)}

\* The canonical names of a pair of athletes, and of a candidate
PairNames(p) == {athletes[p[1]].canonicalName, athletes[p[2]].canonicalName}

CandidateNames(d) == {d.athlete1, d.athlete2}

\* C27: findPotentialDuplicates returns one candidate for each pair of
\* distinct stored athletes whose canonical names score at least the
\* threshold and none for any other pair; a candidate carries its score
\* and, for each side, the number of stored records under that canonical
\* name; the list is in non-increasing order of score; the store is left
\* unchanged.
C27_FindDuplicates ==
    \A threshold \in Thresholds :
        LET out == findPotentialDuplicates(athletes, swimTimes, threshold)
            found == out.value
            similar == SimilarPairs(threshold)
        IN  /\ Len(found) = Cardinality(similar)
            /\ \A p \in similar :
                   Cardinality({k \in 1..Len(found) :
                                   CandidateNames(found[k]) = PairNames(p)})
                       = Cardinality({q \in similar : PairNames(q) = PairNames(p)})
            /\ \A k \in 1..Len(found) :
                   /\ \E p \in similar : CandidateNames(found[k]) = PairNames(p)
                   /\ SameScore(found[k].similarity,
                                NameScore[found[k].athlete1, found[k].athlete2])
                   /\ found[k].timesCount1 =
                          Cardinality({r \in 1..Len(swimTimes) :
                              swimTimes[r].athleteName = found[k].athlete1})
                   /\ found[k].timesCount2 =
                          Cardinality({r \in 1..Len(swimTimes) :
                              swimTimes[r].athleteName = found[k].athlete2})
            /\ \A k \in 1..(Len(found) - 1) :
                   AtLeast(found[k].similarity, found[k + 1].similarity)
            /\ out.athletes = athletes
            /\ out.swimTimes = swimTimes

\* C27 witness: "Robert Jones", "Bob Jones" and "Bobby Jones" stored in that
\* order with one record of Bob Jones.  At 0.8 the three pairs are returned,
\* Bob/Bobby (213/220) ahead of the two pairs with Robert (49/60) that were
\* pushed before it; at the default 0.85 only Bob/Bobby is returned, with
\* counts 1 and 0.
C27_Witness ==
    LET low == findPotentialDuplicates(athletes, swimTimes, Rational(4, 5)).value
        default == findPotentialDuplicates(athletes, swimTimes, Rational(17, 20)).value
    IN  /\ StoreInv(athletes, swimTimes)
        /\ Len(athletes) = 3
        /\ athletes[1].canonicalName = "Robert Jones"
        /\ athletes[2].canonicalName = "Bob Jones"
        /\ athletes[3].canonicalName = "Bobby Jones"
        /\ Len(swimTimes) = 1 /\ swimTimes[1].athleteName = "Bob Jones"
        /\ Len(low) = 3
        /\ low[1].athlete1 = "Bob Jones" /\ low[1].athlete2 = "Bobby Jones"
        /\ low[2].athlete1 = "Robert Jones" /\ low[2].athlete2 = "Bob Jones"
        /\ low[3].athlete1 = "Robert Jones" /\ low[3].athlete2 = "Bobby Jones"
        /\ SameScore(low[2].similarity, Rational(49, 60))
        /\ default = <<[athlete1 |-> "Bob Jones", athlete2 |-> "Bobby Jones",
                        similarity |-> Rational(213, 220),
                        timesCount1 |-> 1, timesCount2 |-> 0]>>

(***************************************************************************)
(* Raw-string lookups (checked under SpecRaw)                              *)
(***************************************************************************)
\* Two spellings that differ only by letter case, only by punctuation, only
\* by white space
OnlyCaseDiffers(n1, n2) ==
    n1 # n2 /\ toLowerCase(Spell(n1)) = toLowerCase(Spell(n2))

OnlyPunctuationDiffers(n1, n2) ==
    /\ n1 # n2
    /\ SelectSeq(Spell(n1), IsWordOrSpace) = SelectSeq(Spell(n2), IsWordOrSpace)

OnlyWhiteSpaceDiffers(n1, n2) ==
    /\ n1 # n2
    /\ SelectSeq(Spell(n1), LAMBDA c : ~IsSpace(c))
           = SelectSeq(Spell(n2), LAMBDA c : ~IsSpace(c))

\* Neither a canonical name nor an alias of the store
Unknown(n) == n \notin NameSet(athletes)

\* The store after a record is created under n1 and then one under n2
RecordedBoth(n1, n2) ==
    LET first == createSwimTime(athletes, swimTimes, n1, clock)
    IN  createSwimTime(first.athletes, first.swimTimes, n2, clock)

\* n1 and n2 are two athletes of the store, each the name of its own record,
\* and neither resolves to the other
TwoIdentities(out, n1, n2) ==
    /\ Len(out.athletes) = Len(athletes) + 2
    /\ out.athletes[Len(athletes) + 1] = [canonicalName |-> n1, aliases |-> <<>>]
    /\ out.athletes[Len(athletes) + 2] = [canonicalName |-> n2, aliases |-> <<>>]
    /\ resolveAthleteName(out.athletes, n1) = n1
    /\ resolveAthleteName(out.athletes, n2) = n2
    /\ out.swimTimes[Len(swimTimes) + 1].athleteName = n1
    /\ out.swimTimes[Len(swimTimes) + 2].athleteName = n2

\* findPotentialDuplicates() reports the pair with similarity 1.0
ReportedAsSame(out, n1, n2) ==
    LET found == findPotentialDuplicates(out.athletes, out.swimTimes,
                                         Rational(17, 20)).value
    IN  \E k \in 1..Len(found) :
            /\ found[k].athlete1 = n1
            /\ found[k].athlete2 = n2
            /\ SameScore(found[k].similarity, Rational(1, 1))

\* C28 as stated: records created under two names new to the store that
\* differ only by letter case, or only by punctuation, or only by white
\* space, make two athletes, neither name resolving to the other, and
\* findPotentialDuplicates reports the pair with similarity 1.0.
C28_AsStated ==
    \A n1 \in RawNames, n2 \in RawNames :
        (/\ Unknown(n1) /\ Unknown(n2)
         /\ \/ OnlyCaseDiffers(n1, n2)
            \/ OnlyPunctuationDiffers(n1, n2)
            \/ OnlyWhiteSpaceDiffers(n1, n2))
        => /\ TwoIdentities(RecordedBoth(n1, n2), n1, n2)
           /\ ReportedAsSame(RecordedBoth(n1, n2), n1, n2)

\* C28: records created under two different names new to the store make
\* two athletes, neither name resolving to the other, also when the names
\* differ only by letter case, punctuation or white space.
\* findPotentialDuplicates reports the pair with similarity 1.0 when the
\* normalized names are equal, which is so for names that differ only by
\* letter case; names that differ only by white space or punctuation are
\* reported with the score of their normalized forms, which is 1.0 when
\* those are equal.
C28_RawLookups ==
    \A n1 \in RawNames, n2 \in RawNames :
        (Unknown(n1) /\ Unknown(n2) /\ n1 # n2)
        => /\ TwoIdentities(RecordedBoth(n1, n2), n1, n2)
           /\ OnlyCaseDiffers(n1, n2) =>
                  normalize(Spell(n1)) = normalize(Spell(n2))
           /\ normalize(Spell(n1)) = normalize(Spell(n2)) =>
                  ReportedAsSame(RecordedBoth(n1, n2), n1, n2)

\* C28 witness: records created under "Ann Lee" and "ann lee"; both are
\* athletes, each resolves to itself, and the pair is reported at 1.0.  The
\* pair "AnnLee", "Ann Lee", which differs by one space, scores 6/7, and
\* "a ." against "a ", which differs by one full stop, scores 0.5.
C28_Witness ==
    /\ Len(athletes) = 2 /\ Len(swimTimes) = 1
    /\ athletes[1] = [canonicalName |-> "Ann Lee", aliases |-> <<>>]
    /\ athletes[2] = [canonicalName |-> "ann lee", aliases |-> <<>>]
    /\ swimTimes[1].athleteName = "ann lee"
    /\ OnlyCaseDiffers("Ann Lee", "ann lee")
    /\ resolveAthleteName(athletes, "Ann Lee") = "Ann Lee"
    /\ resolveAthleteName(athletes, "ann lee") = "ann lee"
    /\ findPotentialDuplicates(athletes, swimTimes, Rational(17, 20)).value
           = <<[athlete1 |-> "Ann Lee", athlete2 |-> "ann lee",
                similarity |-> Rational(1, 1),
                timesCount1 |-> 0, timesCount2 |-> 1]>>
    /\ OnlyWhiteSpaceDiffers("AnnLee", "Ann Lee")
    /\ calculateNameSimilarity(Spell("AnnLee"), Spell("Ann Lee")) = Rational(120, 140)
    /\ calculateNameSimilarity(<<"a", " ", ".">>, <<"a", " ">>) = Rational(20, 40)

(***************************************************************************)
(* Merge: alias repair and frame (checked under Spec)                      *)
(***************************************************************************)
\* aliases.map(alias => alias === old ? new : alias)
Rewritten(aliases, old, new) ==
    [j \in 1..Len(aliases) |-> IF aliases[j] = old THEN new ELSE aliases[j]]

\* C31: after a merge that succeeds, the resolved `from` name is an alias of
\* the winner and of no other athlete: in every other athlete's alias array
\* each entry equal to the resolved `from` name has been replaced by the
\* resolved `to` name.
C31_MergeRepairsAliases ==
    \A f \in Names, t \in Names :
        LET m == mergeAthletes(athletes, swimTimes, f, t)
            rf == resolveAthleteName(athletes, f)
            rt == resolveAthleteName(athletes, t)
            fi == getAthlete(athletes, rf)
            ti == getAthlete(athletes, rt)
        IN  m.ok =>
                /\ Includes(m.athletes[Shift(ti, fi)].aliases, rf)
                /\ \A k \in 1..Len(athletes) :
                       (k # fi /\ k # ti) =>
                           /\ ~Includes(m.athletes[Shift(k, fi)].aliases, rf)
                           /\ m.athletes[Shift(k, fi)].aliases =
                                  Rewritten(athletes[k].aliases, rf, rt)

\* C31 witness: a third athlete has the canonical name of the merged athlete
\* among its aliases; after the merge it has the winner's name there.
C31_Witness ==
    \E f \in Names, t \in Names :
        LET m == mergeAthletes(athletes, swimTimes, f, t)
            fi == getAthlete(athletes, f)
            ti == getAthlete(athletes, t)
        IN  /\ m.ok
            /\ fi # 0 /\ ti # 0
            /\ \E k \in 1..Len(athletes) :
                   /\ k # fi /\ k # ti
                   /\ Includes(athletes[k].aliases, f)
                   /\ ~Includes(m.athletes[Shift(k, fi)].aliases, f)
                   /\ Includes(m.athletes[Shift(k, fi)].aliases, t)

(***************************************************************************)
(* Uniqueness without reconcile (checked under SpecLocal)                  *)
(***************************************************************************)
\* C32: from a store in which every name string occurs once across canonical
\* names and alias arrays, createSwimTime, updateSwimTime, deleteSwimTime,
\* mergeAthletes, renameAthleteCanonical, mergeAthletesWithFinalName and
\* unmergeAlias each leave a store with the same property, whether the call
\* succeeds or fails.
C32_UniquenessInductive ==
    /\ UniqueNames(athletes)
    /\ \A n \in Names :
           /\ UniqueNames(createSwimTime(athletes, swimTimes, n, clock).athletes)
           /\ UniqueNames(unmergeAlias(athletes, swimTimes, n).athletes)
           /\ \A id \in RecIds :
                  UniqueNames(updateSwimTime(athletes, swimTimes, id, n, clock).athletes)
           /\ \A m \in Names :
                  /\ UniqueNames(mergeAthletes(athletes, swimTimes, n, m).athletes)
                  /\ UniqueNames(renameAthleteCanonical(athletes, swimTimes, n, m).athletes)
                  /\ \A final \in Names :
                         UniqueNames(mergeAthletesWithFinalName(
                                         athletes, swimTimes, n, m, final).athletes)
    /\ \A id \in RecIds :
           /\ UniqueNames(deleteSwimTime(athletes, swimTimes, id).athletes)
           /\ UniqueNames(updateSwimTime(athletes, swimTimes, id, NoName, clock).athletes)

\* C32 witness: "Bob Jones" with alias "Bobby Jones", and "Robert Jones".
\* The alias is detached into a third athlete, Robert is merged into Bob,
\* Bob is renamed to Bobby, a merge with itself fails, and a merge with the
\* final name "Robert Jones" succeeds: each result holds every name once.
C32_Witness ==
    LET u == unmergeAlias(athletes, swimTimes, "Bobby Jones")
        m == mergeAthletes(athletes, swimTimes, "Robert Jones", "Bob Jones")
        r == renameAthleteCanonical(athletes, swimTimes, "Bob Jones", "Bobby Jones")
        s == mergeAthletes(athletes, swimTimes, "Bobby Jones", "Bob Jones")
        w == mergeAthletesWithFinalName(athletes, swimTimes, "Robert Jones",
                                        "Bob Jones", "Robert Jones")
    IN  /\ athletes = <<[canonicalName |-> "Bob Jones", aliases |-> <<"Bobby Jones">>],
                        [canonicalName |-> "Robert Jones", aliases |-> <<>>]>>
        /\ u.ok /\ Len(u.athletes) = 3 /\ UniqueNames(u.athletes)
        /\ m.ok /\ Len(m.athletes) = 1 /\ UniqueNames(m.athletes)
        /\ r.ok /\ r.athletes # athletes /\ UniqueNames(r.athletes)
        /\ ~s.ok /\ s.athletes = athletes
        /\ w.ok /\ w.athletes[1].canonicalName = "Robert Jones"
        /\ UniqueNames(w.athletes)

(***************************************************************************)
(* Reconcile: counters and record ids (checked under Spec)                 *)
(***************************************************************************)
\* The payloads with an array of entries that carry the athletes a and the
\* entries r
RecordPayloadsOf(a, r) == {p \in PayloadsOf(a, r) : p.shape \in {"object", "array"}}

\* C33: for every payload that parses and holds an array of entries,
\* imported + updated + skipped is the number of entries of the array,
\* whether or not alias conflicts are reported or other entries are invalid.
C33_CountersAddUp ==
    \A a \in SeqUpTo(InAthletes, MaxInAth), r \in SeqUpTo(InRecords, MaxBatch) :
        (Len(a) + Len(r) <= MaxBatch) =>
            \A p \in RecordPayloadsOf(a, r) :
                LET out == importData(athletes, swimTimes, p)
                IN  out.imported + out.updated + out.skipped = Len(r)

\* The entries a batch of several is made of: the invalid entry and the
\* valid entries of one athlete and one date, with every id and last_modified
BatchRecords ==
    {t \in InRecords :
        /\ t # NullEntry
        /\ t.valid => (t.athleteName = "Bob Jones" /\ t.date = 1)}

\* C34: a reconcile call that runs to its end removes no stored record and
\* keeps record ids unique: the number of stored records is the number
\* before the call plus `imported`, every id stored before is still stored,
\* and no two stored records share an id; an entry without an id is stored
\* under an id no other stored record has, and two entries with the same new
\* id give one stored record.
C34_RecordsKeptIdsUnique ==
    \A r \in SeqUpTo(BatchRecords, MaxBatch) :
        \A p \in RecordPayloadsOf(<<>>, r) :
            LET out == importData(athletes, swimTimes, p)
                before == RecordIds(swimTimes)
                after == RecordIds(out.swimTimes)
                newIds == {r[k].id : k \in {j \in 1..Len(r) : r[j].valid}}
                              \ (before \cup {0})
                noId == {k \in 1..Len(r) : r[k].valid /\ r[k].id = 0}
            IN  /\ Len(out.swimTimes) = Len(swimTimes) + out.imported
                /\ before \subseteq after
                /\ Cardinality(after) = Len(out.swimTimes)
                /\ out.imported = Cardinality(newIds) + Cardinality(noId)
                /\ newIds \subseteq after
                /\ Cardinality(after \ (before \cup newIds)) = Cardinality(noId)

\* C34 witness: one record is stored, with id 1.  Two entries without an id
\* are stored as two more records under two further ids; into the same
\* athletes without the record, two entries that both carry id 1 give one
\* record, counted imported once and updated once.
C34_Witness ==
    LET anon == [valid |-> TRUE, id |-> 0, athleteName |-> "Bob Jones",
                 last_modified |-> 1, date |-> 1]
        one == [anon EXCEPT !.id = 1]
        later == [anon EXCEPT !.id = 1, !.last_modified = 2]
        two == importData(athletes, swimTimes, Payload("array", <<>>, <<anon, anon>>))
        same == importData(athletes, <<>>, Payload("array", <<>>, <<one, later>>))
    IN  /\ Len(swimTimes) = 1 /\ swimTimes[1].id = 1
        /\ two.imported = 2
        /\ Len(two.swimTimes) = 3
        /\ two.swimTimes[1] = swimTimes[1]
        /\ RecordIds(two.swimTimes) = {1, 2, 3}
        /\ same.imported = 1 /\ same.updated = 1
        /\ same.swimTimes = <<[id |-> 1, athleteName |-> resolveAthleteName(athletes, "Bob Jones"),
                               last_modified |-> 2]>>

\* C35: a merge that succeeds changes, among the records, only the
\* athleteName of the records labelled with the resolved `from` name: the
\* number of records, every id and every last_modified are unchanged and
\* records under other names are as they were; and when every name string
\* occurred once before the call, every athlete other than the two merged
\* keeps its canonical name and its aliases.
C35_MergeFrame ==
    \A f \in Names, t \in Names :
        LET m == mergeAthletes(athletes, swimTimes, f, t)
            rf == resolveAthleteName(athletes, f)
            rt == resolveAthleteName(athletes, t)
            fi == getAthlete(athletes, rf)
            ti == getAthlete(athletes, rt)
        IN  m.ok =>
                /\ Len(m.swimTimes) = Len(swimTimes)
                /\ \A k \in 1..Len(swimTimes) :
                       /\ m.swimTimes[k].id = swimTimes[k].id
                       /\ m.swimTimes[k].last_modified = swimTimes[k].last_modified
                       /\ swimTimes[k].athleteName # rf =>
                              m.swimTimes[k] = swimTimes[k]
                       /\ swimTimes[k].athleteName = rf =>
                              m.swimTimes[k].athleteName = rt
                /\ UniqueNames(athletes) =>
                       \A k \in 1..Len(athletes) :
                           (k # fi /\ k # ti) =>
                               m.athletes[Shift(k, fi)] = athletes[k]

\* C35 witness: three athletes holding each name once and a record of
\* "Bob Jones"; merging Bob into Robert rewrites the record's name only and
\* leaves "Bobby Jones" as it was, and merging Bobby into Robert leaves the
\* record as it was.
C35_Witness ==
    LET m == mergeAthletes(athletes, swimTimes, "Bob Jones", "Robert Jones")
        o == mergeAthletes(athletes, swimTimes, "Bobby Jones", "Robert Jones")
    IN  /\ UniqueNames(athletes)
        /\ Len(athletes) = 3
        /\ athletes[3].canonicalName = "Bobby Jones"
        /\ getAthlete(athletes, "Bob Jones") # 0
        /\ getAthlete(athletes, "Robert Jones") # 0
        /\ Len(swimTimes) = 1
        /\ swimTimes[1].athleteName = "Bob Jones"
        /\ m.ok
        /\ m.swimTimes = <<[swimTimes[1] EXCEPT !.athleteName = "Robert Jones"]>>
        /\ m.athletes[2] = athletes[3]
        /\ o.ok
        /\ o.swimTimes = swimTimes

(***************************************************************************)
(* Last write wins across export, edit and reconcile (checked under Spec)  *)
(***************************************************************************)
\* The times at which a later call can run
Later == {now \in Stamps : now >= clock}

\* C36: the store is exported, a stored record is then edited, and the
\* earlier export is then reconciled in: the edit does not lower the
\* record's last_modified, the edited record is stored unchanged after the
\* reconcile, and every entry of the export is counted skipped.
C36_EditSurvivesOldExport ==
    \A id \in RecIds, n \in Names \cup {NoName}, now \in Later :
        LET exported == exportData(athletes, swimTimes)
            edited == updateSwimTime(athletes, swimTimes, id, n, now)
            at == findIndex(swimTimes, id)
            out == importData(edited.athletes, edited.swimTimes, exported)
        IN  edited.ok =>
                /\ edited.swimTimes[at].last_modified >= swimTimes[at].last_modified
                /\ out.swimTimes = edited.swimTimes
                /\ out.updated = 0
                /\ out.imported = 0
                /\ out.skipped = Len(swimTimes)

====
